---------------------------- MODULE Spec2Model ----------------------------
(***************************************************************************)
(* Model of the sensor-to-world projection, grid rasterisation, planar     *)
(* surface removal and grid-space clustering of the xRI tools:             *)
(*   finalized_xri_tools/2_gen_veg_structure.py            (script "veg2") *)
(*   finalized_xri_tools/3c_generate_ndvi_rasters_legacy.py    ("ndvi3c")  *)
(*   finalized_xri_tools/4b_generate_temp_anomalies_gridded.py ("thermal4b")*)
(*   finalized_xri_tools/5_generate_reflec_anomalies.py       ("reflec5")  *)
(*   finalized_xri_tools/6_solar_radiation_analysis.py         ("solar6")  *)
(*                                                                         *)
(* One behaviour is one run of main() of one script: its start-up, then    *)
(* its loop over the matched entities (UPRNs), one entity at a time.       *)
(*                                                                         *)
(* Numbers.  Pixel-projected coordinates are integers in millimetres (the  *)
(* range image is in millimetres; dist_m = range / 1000).  Point-cloud     *)
(* coordinates of veg2 are integers in half metres.  Angles are degrees of *)
(* the intrinsics table; cos and sin are exact fifths (Cos5, Sin5), 37     *)
(* standing for atan(3/4).  A z-score is the exact pair <<num, den2>>      *)
(* meaning num / sqrt(den2), <<0, 0>> being NaN.  Floating-point rounding  *)
(* is not modelled.                                                        *)
(***************************************************************************)
EXTENDS Integers, Sequences, FiniteSets, TLC

VARIABLES
    script,          \* which tool runs
    run,             \* main(): starting / looping / complete / aborted
    matched,         \* len(list(matched)), the entities of the loop
    attempts,        \* the entities the loop body was entered for, in order
    pc,              \* position in the per-entity code
    outcome,         \* "" while running, then written / skipped / failed
    log,             \* the message the script records for the entity, if any
    intrinsics,      \* json.load(...)['beam_intrinsics']
    origin_coord,    \* coords[uprn]
    \* the image scripts (3c, 4b, 5)
    shape,           \* image_array.shape = <<img_rows, img_cols>>
    value_arr,       \* ndvi_array / reflec_arr / temp_data
    range_arr,       \* range image, raw range units (mm)
    z_scores,        \* 5: zscore(reflec_arr), non-finite coerced to 0
    anomalous_mask,  \* boolean image
    points,          \* result of georeference_pixels_to_points
    \* 4b
    extent,          \* min_x, min_y, max_x, max_y of the anomalous points
    grid,            \* the float32 temperature grid
    grid_coords,     \* grid_coords_for_dbscan, rows <<grid_x, grid_y>>
    labels,          \* db.labels_
    output_raster_array,
    \* 2
    cloud,           \* pcd.points
    ground_z_local,
    remaining_pcd,
    passes,          \* iterations of "for _ in range(5)" completed
    veg_points_global,
    height_raster,
    next_point,      \* position of "for p in veg_points_global"
    result           \* first component of process_veg_structural's return

imgvars == <<shape, value_arr, range_arr, z_scores, anomalous_mask, points>>
thermalvars == <<extent, grid, grid_coords, labels, output_raster_array>>
vegvars == <<cloud, ground_z_local, remaining_pcd, passes, veg_points_global,
             height_raster, next_point, result>>
drivervars == <<run, matched, attempts>>
vars == <<script, drivervars, pc, outcome, log, intrinsics, origin_coord,
          imgvars, thermalvars, vegvars>>

(***************************************************************************)
(* Bounds of the explored inputs.                                          *)
(***************************************************************************)
\* NDVI pixel values of the small images are 0 .. MaxValue
MaxValue == 1
\* reflectance pixel values of the small images are 0 .. MaxReflec
MaxReflec == 2
\* shape of the thermal images
ThermalRows == 4
ThermalCols == 26
\* runs of points in a point cloud, after its ground run
NumRuns == 4
\* matched entities of one run of a script
NumEntities == 2

\* np.nan as an image or raster value (outside every value range used)
NaN == -1000000
\* NaN as a z-score: 0 / sqrt(0)
ZNaN == <<0, 0>>
\* Python's None for an array-valued name
None == <<>>

Abs(i) == IF i < 0 THEN -i ELSE i

RECURSIVE SumSeq(_)
SumSeq(s) == IF s = <<>> THEN 0 ELSE Head(s) + SumSeq(Tail(s))

(***************************************************************************)
(* Beam geometry.                                                          *)
(***************************************************************************)
\* beam_intrinsics.json: altitude angle per sensor row, azimuth per column
BeamIntrinsics ==
    [beam_altitude_angles |-> <<0, 37>>, beam_azimuth_angles |-> <<0, 90>>]

\* 5 * np.cos(np.deg2rad(deg)) on the angles of the tables
Cos5(deg) ==
    CASE deg = 0 -> 5 [] deg = 37 -> 4 [] deg = 53 -> 3 [] deg = 90 -> 0
      [] deg = 180 -> -5 [] deg = 270 -> 0

\* 5 * np.sin(np.deg2rad(deg))
Sin5(deg) ==
    CASE deg = 0 -> 0 [] deg = 37 -> 3 [] deg = 53 -> 4 [] deg = 90 -> 5
      [] deg = 180 -> 0 [] deg = 270 -> -5

\* a sensor with three beam rows and a single beam column
SteepIntrinsics ==
    [beam_altitude_angles |-> <<0, 37, 53>>, beam_azimuth_angles |-> <<90>>]

Min2(a, b) == IF a < b THEN a ELSE b

\* a lookup that wraps around the table instead of staying on its last entry
AltOf_Wrapped(intr, r) ==
    intr.beam_altitude_angles[(r % Len(intr.beam_altitude_angles)) + 1]

\* alt_angles[np.minimum(rows, len(alt_angles) - 1)]   (0-based row)
AltOf(intr, r) ==
    intr.beam_altitude_angles[Min2(r, Len(intr.beam_altitude_angles) - 1) + 1]

\* azi_angles[np.minimum(cols, len(azi_angles) - 1)]   (0-based column)
AziOf(intr, c) ==
    intr.beam_azimuth_angles[Min2(c, Len(intr.beam_azimuth_angles) - 1) + 1]

(***************************************************************************)
(* Images: functions over the pixels <<r, c>> of a shape, 0-based.         *)
(***************************************************************************)
Pixels(shp) == (0 .. shp[1] - 1) \X (0 .. shp[2] - 1)

\* the pixels in the order np.where returns them (row-major)
RowMajor(shp) ==
    [k \in 1 .. shp[1] * shp[2] |-> <<(k - 1) \div shp[2], (k - 1) % shp[2]>>]

\* np.full(image_array.shape, True, dtype=bool)
FullTrue(shp) == [p \in Pixels(shp) |-> TRUE]

\* rows, cols = np.where(mask)
WhereTrue(shp, mask) == SelectSeq(RowMajor(shp), LAMBDA p : mask[p])

RANGE_SANITY_MAX == 100000
RANGE_SCALE == 1000

\* a validity test that lets a zero range through
ValidRange_ZeroAllowed(rng) == rng >= 0 /\ rng < RANGE_SANITY_MAX

\* valid_indices = (range > 0) & (range < 100000)
ValidRange(rng) == rng > 0 /\ rng < RANGE_SANITY_MAX

\* rows, cols = rows[valid_indices], cols[valid_indices]
KeepValid(pix, range_array) ==
    SelectSeq(pix, LAMBDA p : ValidRange(range_array[p]))

\* dist_m = range.astype(np.float32) / 1000.0, held as millimetres
DistMM(rng) == (rng * 1000) \div RANGE_SCALE

\* a projection with the sine and the cosine of the azimuth exchanged
ProjectPixel_AzimuthSwapped(p, image_array, range_array, intr, origin) ==
    LET d   == DistMM(range_array[p])
        alt == AltOf(intr, p[1])
        azi == AziOf(intr, p[2])
    IN  << origin[1] + (d * Cos5(alt) * Sin5(azi)) \div 25,
           origin[2] + (d * Cos5(alt) * Cos5(azi)) \div 25,
           (d * Sin5(alt)) \div 5,
           image_array[p] >>

\* one row of np.column_stack((origin_x + x_local, origin_y + y_local,
\*                             z_local, image_array[rows, cols]))
ProjectPixel(p, image_array, range_array, intr, origin) ==
    LET d   == DistMM(range_array[p])
        alt == AltOf(intr, p[1])
        azi == AziOf(intr, p[2])
    IN  << origin[1] + (d * Cos5(alt) * Cos5(azi)) \div 25,
           origin[2] + (d * Cos5(alt) * Sin5(azi)) \div 25,
           (d * Sin5(alt)) \div 5,
           image_array[p] >>

\* the common tail of georeference_pixels_to_points
ProjectAll(pix, image_array, range_array, intr, origin) ==
    LET kept == KeepValid(pix, range_array)
    IN  [k \in 1 .. Len(kept) |->
            ProjectPixel(kept[k], image_array, range_array, intr, origin)]

\* 3c: required_keys = ['beam_altitude_angles', 'beam_azimuth_angles'];
\* all(key in intrinsics for key in required_keys)
HasRequiredKeys(intr) ==
    {"beam_altitude_angles", "beam_azimuth_angles"} \subseteq DOMAIN intr

\* a projection that looks up the angle arrays before it tests for the
\* absence of valid pixels
GeorefError_BeforeFilter(pix, range_array, intr) ==
    IF ~HasRequiredKeys(intr) THEN "KeyError"
    ELSE IF \/ Len(intr.beam_altitude_angles) = 0
            \/ Len(intr.beam_azimuth_angles) = 0
      THEN "IndexError"
      ELSE ""

\* The exception georeference_pixels_to_points raises for the pixels pix
\* that np.where selected, "" when it returns: intrinsics[key] raises
\* KeyError for a missing key; with valid pixels left, an empty angle
\* array is indexed at np.minimum(rows, -1) = -1, an IndexError.  Without
\* valid pixels the function returns [] before it indexes the arrays.
GeorefError(pix, range_array, intr) ==
    IF ~HasRequiredKeys(intr) THEN "KeyError"
    ELSE IF /\ Len(KeepValid(pix, range_array)) > 0
            /\ \/ Len(intr.beam_altitude_angles) = 0
               \/ Len(intr.beam_azimuth_angles) = 0
      THEN "IndexError"
      ELSE ""

\* f"{uprn} (Python Error: {e})"
ErrorRecord(err) ==
    IF err = "KeyError" THEN "Python Error: KeyError"
    ELSE "Python Error: IndexError"

\* 3c_generate_ndvi_rasters_legacy.georeference_pixels_to_points
GeorefNdvi(shp, image_array, range_array, intr, origin) ==
    ProjectAll(WhereTrue(shp, FullTrue(shp)), image_array, range_array,
               intr, origin)

\* 5_generate_reflec_anomalies.georeference_pixels_to_points
GeorefReflec(shp, image_array, range_array, intr, origin, filter_mask) ==
    LET mask == IF filter_mask = None THEN FullTrue(shp) ELSE filter_mask
    IN  ProjectAll(WhereTrue(shp, mask), image_array, range_array, intr, origin)

\* 4b_generate_temp_anomalies_gridded.georeference_pixels_to_points:
\* filter_mask is accepted and never read
GeorefThermal(shp, image_array, range_array, intr, origin, filter_mask) ==
    ProjectAll(WhereTrue(shp, FullTrue(shp)), image_array, range_array,
               intr, origin)


(***************************************************************************)
(* Z-scores.  scipy.stats.zscore(a) works along axis 0: each column of the *)
(* image is standardised with its own mean and (population) deviation.     *)
(* With n, S, Q the count, sum and sum of squares of a column's entries,   *)
(*   z = (v - S/n) / sqrt(Q/n - (S/n)^2) = (n v - S) / sqrt(n Q - S^2).    *)
(***************************************************************************)
\* the non-NaN entries of column c, top to bottom
ColumnValues(shp, img, c) ==
    SelectSeq([r \in 1 .. shp[1] |-> img[<<r - 1, c>>]], LAMBDA v : v # NaN)

SquareAll(s) == [k \in 1 .. Len(s) |-> s[k] * s[k]]

\* zscore of one entry; 0/0 and NaN entries give NaN
ZScoreOf(shp, img, p) ==
    LET col  == ColumnValues(shp, img, p[2])
        n    == Len(col)
        S    == SumSeq(col)
        Q    == SumSeq(SquareAll(col))
        den2 == n * Q - S * S
    IN  IF img[p] = NaN \/ den2 = 0 THEN ZNaN ELSE <<n * img[p] - S, den2>>

\* zscore(a) / zscore(a, nan_policy='omit') of a 2-D array
ZScore(shp, img) == [p \in Pixels(shp) |-> ZScoreOf(shp, img, p)]

\* z_scores[~np.isfinite(z_scores)] = 0
CoerceNonFinite(shp, z) ==
    [p \in Pixels(shp) |-> IF z[p] = ZNaN THEN <<0, 1>> ELSE z[p]]

\* ZSCORE_THRESHOLD = 1.5 as the fraction 3/2
ZSCORE_THRESHOLD == <<3, 2>>

\* a comparison that also accepts a score on the threshold
ExceedsThreshold_Inclusive(z) ==
    /\ z # ZNaN
    /\ ZSCORE_THRESHOLD[2] * ZSCORE_THRESHOLD[2] * z[1] * z[1]
         >= ZSCORE_THRESHOLD[1] * ZSCORE_THRESHOLD[1] * z[2]

\* np.abs(z) > 1.5 for one score (a comparison with NaN is False)
ExceedsThreshold(z) ==
    /\ z # ZNaN
    /\ ZSCORE_THRESHOLD[2] * ZSCORE_THRESHOLD[2] * z[1] * z[1]
         > ZSCORE_THRESHOLD[1] * ZSCORE_THRESHOLD[1] * z[2]

\* anomalous_mask = np.abs(z_scores) > threshold
AnomalyMask(shp, z) == [p \in Pixels(shp) |-> ExceedsThreshold(z[p])]

\* np.std(a) == 0 / np.nanstd(a) == 0 over the whole array
AllValues(shp, img) ==
    SelectSeq([k \in 1 .. Len(RowMajor(shp)) |-> img[RowMajor(shp)[k]]],
              LAMBDA v : v # NaN)

\* a deviation test that never finds a zero
StdIsZero_Never(shp, img) == FALSE

StdIsZero(shp, img) ==
    LET a == AllValues(shp, img)
    IN  Len(a) * SumSeq(SquareAll(a)) - SumSeq(a) * SumSeq(a) = 0

(***************************************************************************)
(* Rasters: a dense rows x cols array held as its fill value and the cells *)
(* that differ from it; positions are <<row, col>>, 0-based.               *)
(***************************************************************************)
\* np.full((rows, cols), fill)
FullRaster(rows, cols, fill) ==
    [rows |-> rows, cols |-> cols, fill |-> fill, cells |-> <<>>]

Positions(raster) == (0 .. raster.rows - 1) \X (0 .. raster.cols - 1)

InBounds(raster, pos) ==
    /\ 0 <= pos[1] /\ pos[1] < raster.rows
    /\ 0 <= pos[2] /\ pos[2] < raster.cols

\* raster[row, col]
At(raster, pos) ==
    IF pos \in DOMAIN raster.cells THEN raster.cells[pos] ELSE raster.fill

\* raster[row, col] = v
Put(raster, pos, v) ==
    LET dom == IF v = raster.fill THEN DOMAIN raster.cells \ {pos}
                                  ELSE DOMAIN raster.cells \cup {pos}
    IN  [raster EXCEPT !.cells =
            [q \in dom |-> IF q = pos THEN v ELSE raster.cells[q]]]

\* int(x / d) and (x / d).astype(int): truncation toward zero
TruncDiv(a, d) == IF a >= 0 THEN a \div d ELSE -((-a) \div d)

\* int(np.ceil(a / d))
CeilDiv(a, d) == -((-a) \div d)

MinOf(S) == CHOOSE m \in S : \A x \in S : m <= x
MaxOf(S) == CHOOSE m \in S : \A x \in S : m >= x

\* the coordinate column k of a point list
Column(pts, k) == {pts[i][k] : i \in 1 .. Len(pts)}

\* an aggregation that keeps the last value written
Maximum_LastWins(a, b) == b

\* np.maximum(a, b): NaN if either is NaN
Maximum(a, b) == IF a = NaN \/ b = NaN THEN NaN ELSE IF a >= b THEN a ELSE b

\* np.maximum.at(raster, (ys, xs), vals): unbuffered, in index order
RECURSIVE MaximumAt(_, _, _)
MaximumAt(raster, idx, vals) ==
    IF idx = <<>> THEN raster
    ELSE MaximumAt(Put(raster, Head(idx), Maximum(At(raster, Head(idx)), Head(vals))),
                   Tail(idx), Tail(vals))

\* the positions of a set in row-major order
RECURSIVE RowMajorSeq(_)
RowMajorSeq(S) ==
    IF S = {} THEN <<>>
    ELSE LET m == CHOOSE p \in S : \A q \in S :
                      p[1] < q[1] \/ (p[1] = q[1] /\ p[2] <= q[2])
         IN  <<m>> \o RowMajorSeq(S \ {m})

\* ys, xs = np.where(raster > t): the positions, row-major
WhereGreater(raster, t) ==
    LET Passes(v) == v # NaN /\ v > t
        stored    == {p \in DOMAIN raster.cells : Passes(raster.cells[p])}
        rest      == IF Passes(raster.fill)
                       THEN Positions(raster) \ DOMAIN raster.cells ELSE {}
    IN  RowMajorSeq(stored \cup rest)

(***************************************************************************)
(* sklearn.cluster.DBSCAN(eps, min_samples).fit(X).labels_ with the        *)
(* Euclidean metric: a sample is a core sample when at least min_samples   *)
(* samples (itself included) lie within eps of it; clusters are grown from *)
(* the core samples in index order; -1 is noise.                           *)
(***************************************************************************)
Dist2(a, b) == (a[1] - b[1]) * (a[1] - b[1]) + (a[2] - b[2]) * (a[2] - b[2])

\* neighborhoods[i]: radius_neighbors with radius eps (distance <= eps)
Neighborhood(X, i, eps) ==
    {j \in 1 .. Len(X) : Dist2(X[i], X[j]) <= eps * eps}

\* core_samples: n_neighbors >= min_samples
CoreSamples(X, eps, min_samples) ==
    {i \in 1 .. Len(X) : Cardinality(Neighborhood(X, i, eps)) >= min_samples}

\* a growth that stops at the seed's own neighbourhood
GrowCluster_SeedOnly(X, eps, core, unlabelled, members, frontier) ==
    members \cup (UNION {Neighborhood(X, i, eps) : i \in frontier \cap core}
                    \cap unlabelled)

\* a growth that also expands through the samples that are not core samples
RECURSIVE GrowCluster_ThroughBorder(_, _, _, _, _, _)
GrowCluster_ThroughBorder(X, eps, core, unlabelled, members, frontier) ==
    IF frontier = {} THEN members
    ELSE LET reached == UNION {Neighborhood(X, i, eps) : i \in frontier}
             new     == (reached \cap unlabelled) \ members
         IN  GrowCluster_ThroughBorder(X, eps, core, unlabelled,
                                       members \cup new, new)

\* the depth-first growth of one cluster: every unlabelled sample reached
\* from the seed through core samples
RECURSIVE GrowCluster(_, _, _, _, _, _)
GrowCluster(X, eps, core, unlabelled, members, frontier) ==
    IF frontier = {} THEN members
    ELSE LET reached == UNION {Neighborhood(X, i, eps) : i \in frontier \cap core}
             new     == (reached \cap unlabelled) \ members
         IN  GrowCluster(X, eps, core, unlabelled, members \cup new, new)

\* dbscan_inner: the loop over the samples in index order
RECURSIVE DbscanInner(_, _, _, _, _, _)
DbscanInner(X, eps, core, i, lab, label_num) ==
    IF i > Len(X) THEN lab
    ELSE IF lab[i] # -1 \/ i \notin core
           THEN DbscanInner(X, eps, core, i + 1, lab, label_num)
           ELSE LET unl == {k \in 1 .. Len(X) : lab[k] = -1}
                    cl  == GrowCluster(X, eps, core, unl, {i}, {i})
                IN  DbscanInner(X, eps, core, i + 1,
                        [k \in 1 .. Len(X) |-> IF k \in cl THEN label_num ELSE lab[k]],
                        label_num + 1)

DBSCAN(X, eps, min_samples) ==
    DbscanInner(X, eps, CoreSamples(X, eps, min_samples), 1,
                [k \in 1 .. Len(X) |-> -1], 0)


(***************************************************************************)
(* 3c main(), body of the loop over matched UPRNs.                         *)
(***************************************************************************)
\* ndvi_points = georeference_pixels_to_points(ndvi_array, range_arr, ...)
Ndvi_Georeference ==
    /\ script = "ndvi3c" /\ run = "looping" /\ pc = "loaded"
    /\ IF GeorefError(WhereTrue(shape, FullTrue(shape)), range_arr,
                      intrinsics) # ""
         \* except Exception as e: print(PYTHON ERROR on UPRN ...)
         THEN /\ pc' = "done" /\ outcome' = "failed"
              /\ log' = "PYTHON ERROR"
              /\ UNCHANGED points
         ELSE /\ points' = GeorefNdvi(shape, value_arr, range_arr, intrinsics,
                                     origin_coord)
              /\ pc' = "projected"
              /\ UNCHANGED <<outcome, log>>
    /\ UNCHANGED <<drivervars, script, intrinsics, origin_coord, shape,
                   value_arr, range_arr, z_scores, anomalous_mask, thermalvars,
                   vegvars>>

\* if ndvi_points: create_raster_from_points(..., "NDVI", "MEAN")
Ndvi_CreateRaster ==
    /\ script = "ndvi3c" /\ pc = "projected"
    /\ pc' = "done"
    /\ outcome' = IF points # <<>> THEN "written" ELSE "skipped"
    /\ UNCHANGED <<drivervars, script, log, intrinsics, origin_coord, imgvars, thermalvars,
                   vegvars>>

(***************************************************************************)
(* 5 main(), body of the loop over matched UPRNs.                          *)
(***************************************************************************)
\* if np.std(reflec_arr) == 0: continue
\* z_scores = zscore(reflec_arr); z_scores[~isfinite] = 0; mask = |z| > 1.5
Reflec_ZScore ==
    /\ script = "reflec5" /\ run = "looping" /\ pc = "loaded"
    /\ IF StdIsZero(shape, value_arr)
         THEN /\ pc' = "done" /\ outcome' = "skipped"
              /\ UNCHANGED <<z_scores, anomalous_mask>>
         ELSE /\ z_scores' = CoerceNonFinite(shape, ZScore(shape, value_arr))
              /\ anomalous_mask' = AnomalyMask(shape, z_scores')
              /\ pc' = "masked"
              /\ UNCHANGED outcome
    /\ UNCHANGED <<drivervars, script, log, intrinsics, origin_coord, shape, value_arr,
                   range_arr, points, thermalvars, vegvars>>

\* anomalous_points = georeference_pixels_to_points(z_scores, range_arr,
\*     intrinsics, origin_coord, anomalous_mask); if len < 2: continue
Reflec_Georeference ==
    /\ script = "reflec5" /\ pc = "masked"
    /\ LET err == GeorefError(WhereTrue(shape, anomalous_mask), range_arr,
                              intrinsics)
       IN  IF err # ""
             \* except Exception as e: failed_uprns.append(...)
             THEN /\ pc' = "done" /\ outcome' = "failed"
                  /\ log' = ErrorRecord(err)
                  /\ UNCHANGED points
             ELSE /\ points' = GeorefReflec(shape, z_scores, range_arr,
                                            intrinsics, origin_coord,
                                            anomalous_mask)
                  /\ IF Len(points') < 2
                       THEN pc' = "done" /\ outcome' = "skipped"
                       ELSE pc' = "projected" /\ UNCHANGED outcome
                  /\ UNCHANGED log
    /\ UNCHANGED <<drivervars, script, intrinsics, origin_coord, shape, value_arr,
                   range_arr, z_scores, anomalous_mask, thermalvars, vegvars>>

\* the in-memory feature class and arcpy.sa.KernelDensity(...).save(...)
Reflec_KernelDensity ==
    /\ script = "reflec5" /\ pc = "projected"
    /\ pc' = "done" /\ outcome' = "written"
    /\ UNCHANGED <<drivervars, script, log, intrinsics, origin_coord, imgvars, thermalvars,
                   vegvars>>

(***************************************************************************)
(* 4b main(), body of the loop over matched UPRNs.                         *)
(***************************************************************************)
MIN_VALID_PIXELS == 100
\* GRID_RESOLUTION_METERS = 0.25
GRID_RESOLUTION_MM == 250
DBSCAN_EPSILON_GRID_CELLS == 5
DBSCAN_MIN_SAMPLES == 10
GRID_INIT == -9999
CLUSTER_NODATA == -1

\* a size check that lets everything but the empty input through
TooFewSamples_NoneOnly(n) == n = 0

\* len(anomalous_points) < DBSCAN_MIN_SAMPLES, and the same test on
\* grid_coords_for_dbscan.shape[0]
TooFewSamples(n) == n < DBSCAN_MIN_SAMPLES

\* if np.count_nonzero(~np.isnan(temp_data)) < 100 or np.nanstd(temp_data) == 0
Thermal_CheckData ==
    /\ script = "thermal4b" /\ run = "looping" /\ pc = "loaded"
    /\ IF \/ Len(AllValues(shape, value_arr)) < MIN_VALID_PIXELS
          \/ StdIsZero(shape, value_arr)
         THEN /\ pc' = "done" /\ outcome' = "skipped"
              /\ log' = "SKIPPED: Insufficient valid data or zero standard deviation."
         ELSE /\ pc' = "checked" /\ UNCHANGED <<outcome, log>>
    /\ UNCHANGED <<drivervars, script, intrinsics, origin_coord, shape, value_arr, range_arr,
                   z_scores, anomalous_mask, points, extent, grid, grid_coords,
                   labels, output_raster_array, vegvars>>

\* anomalous_mask = np.abs(zscore(temp_data, nan_policy='omit')) > 1.5
\* anomalous_points = georeference_pixels_to_points(temp_data, range_arr,
\*     intrinsics, origin_coord, anomalous_mask)
\* if len(anomalous_points) < DBSCAN_MIN_SAMPLES: log, continue
Thermal_Georeference ==
    /\ script = "thermal4b" /\ pc = "checked"
    /\ anomalous_mask' = AnomalyMask(shape, ZScore(shape, value_arr))
    /\ LET err == GeorefError(WhereTrue(shape, FullTrue(shape)), range_arr,
                              intrinsics)
       IN  IF err # ""
             \* except Exception as e: failed_uprns.append(...)
             THEN /\ pc' = "done" /\ outcome' = "failed"
                  /\ log' = ErrorRecord(err)
                  /\ UNCHANGED points
             ELSE /\ points' = GeorefThermal(shape, value_arr, range_arr,
                                             intrinsics, origin_coord,
                                             anomalous_mask')
                  /\ IF TooFewSamples(Len(points'))
                       THEN /\ pc' = "done" /\ outcome' = "skipped"
                            /\ log' = "SKIPPED: Not enough anomalous points for clustering."
                       ELSE /\ pc' = "projected" /\ UNCHANGED <<outcome, log>>
    /\ UNCHANGED <<drivervars, script, intrinsics, origin_coord, shape, value_arr, range_arr,
                   z_scores, extent, grid, grid_coords, labels,
                   output_raster_array, vegvars>>

\* point_xs / point_ys: ((coord - min) / GRID_RESOLUTION_METERS).astype(int),
\* as the index pairs (point_ys[k], point_xs[k])
PointCells(pts, min_x, min_y) ==
    [k \in 1 .. Len(pts) |->
        << TruncDiv(pts[k][2] - min_y, GRID_RESOLUTION_MM),
           TruncDiv(pts[k][1] - min_x, GRID_RESOLUTION_MM) >>]

\* point_temps = anomalous_points[:, 3]
PointTemps(pts) == [k \in 1 .. Len(pts) |-> pts[k][4]]

\* a size check that wants both dimensions to be zero
ZeroSized_Both(rows, cols) == cols = 0 /\ rows = 0

\* if cols == 0 or rows == 0
ZeroSized(rows, cols) == cols = 0 \/ rows = 0

\* min/max of the points, cols, rows; zero-size check; grid = np.full(...);
\* np.maximum.at(grid, (point_ys, point_xs), point_temps)
Thermal_Grid ==
    /\ script = "thermal4b" /\ pc = "projected"
    /\ LET min_x == MinOf(Column(points, 1))
           min_y == MinOf(Column(points, 2))
           max_x == MaxOf(Column(points, 1))
           max_y == MaxOf(Column(points, 2))
           cols  == CeilDiv(max_x - min_x, GRID_RESOLUTION_MM)
           rows  == CeilDiv(max_y - min_y, GRID_RESOLUTION_MM)
           empty == FullRaster(rows, cols, GRID_INIT)
           idx   == PointCells(points, min_x, min_y)
       IN  /\ extent' = [min_x |-> min_x, min_y |-> min_y,
                         max_x |-> max_x, max_y |-> max_y]
           /\ IF ZeroSized(rows, cols)
                THEN /\ pc' = "done" /\ outcome' = "skipped"
                     /\ log' = "SKIPPED: Invalid grid dimensions."
                     /\ UNCHANGED grid
                ELSE IF \E k \in 1 .. Len(idx) : ~InBounds(empty, idx[k])
                \* IndexError out of np.maximum.at, caught by except Exception
                THEN /\ pc' = "done" /\ outcome' = "failed"
                     /\ log' = "Python Error: IndexError"
                     /\ grid' = empty
                ELSE /\ pc' = "gridded"
                     /\ grid' = MaximumAt(empty, idx, PointTemps(points))
                     /\ UNCHANGED <<outcome, log>>
    /\ UNCHANGED <<drivervars, script, intrinsics, origin_coord, shape, value_arr, range_arr,
                   z_scores, anomalous_mask, points, grid_coords, labels,
                   output_raster_array, vegvars>>

\* grid_coords_for_dbscan = np.column_stack((grid_xs, grid_ys))
GridCoords(occupied) ==
    [k \in 1 .. Len(occupied) |-> <<occupied[k][2], occupied[k][1]>>]

\* grid_ys, grid_xs = np.where(grid > -9999.0); size check; DBSCAN;
\* output_raster_array = np.full((rows, cols), -1); no-cluster check
Thermal_Cluster ==
    /\ script = "thermal4b" /\ pc = "gridded"
    /\ grid_coords' = GridCoords(WhereGreater(grid, GRID_INIT))
    /\ IF TooFewSamples(Len(grid_coords'))
         THEN /\ pc' = "done" /\ outcome' = "skipped"
              /\ log' = "SKIPPED: Not enough valid grid cells for clustering."
              /\ UNCHANGED <<labels, output_raster_array>>
         ELSE /\ labels' = DBSCAN(grid_coords', DBSCAN_EPSILON_GRID_CELLS,
                                  DBSCAN_MIN_SAMPLES)
              /\ output_raster_array' =
                     FullRaster(grid.rows, grid.cols, CLUSTER_NODATA)
              /\ IF \A k \in 1 .. Len(labels') : labels'[k] = -1
                   THEN /\ pc' = "done" /\ outcome' = "skipped"
                        /\ log' = "SKIPPED: DBSCAN found no clusters."
                   ELSE /\ pc' = "clustered" /\ UNCHANGED <<outcome, log>>
    /\ UNCHANGED <<drivervars, script, intrinsics, origin_coord, shape, value_arr, range_arr,
                   z_scores, anomalous_mask, points, extent, grid, vegvars>>

\* an assignment that writes the labels as they are
RECURSIVE AssignLabels_Raw(_, _, _, _)
AssignLabels_Raw(raster, coords, lab, k) ==
    IF k > Len(coords) THEN raster
    ELSE AssignLabels_Raw(
             IF lab[k] # -1
               THEN Put(raster, <<coords[k][2], coords[k][1]>>, lab[k])
               ELSE raster,
             coords, lab, k + 1)

\* output_raster_array[grid_ys[valid], grid_xs[valid]] = labels[valid] + 1
RECURSIVE AssignLabels(_, _, _, _)
AssignLabels(raster, coords, lab, k) ==
    IF k > Len(coords) THEN raster
    ELSE AssignLabels(
             IF lab[k] # -1
               THEN Put(raster, <<coords[k][2], coords[k][1]>>, lab[k] + 1)
               ELSE raster,
             coords, lab, k + 1)

\* the label assignment, arcpy.NumPyArrayToRaster(output_raster_array,
\* arcpy.Point(min_x, min_y), ..., value_to_nodata=-1), Resample, DefineProjection
Thermal_Write ==
    /\ script = "thermal4b" /\ pc = "clustered"
    /\ output_raster_array' = AssignLabels(output_raster_array, grid_coords, labels, 1)
    /\ pc' = "done" /\ outcome' = "written"
    /\ UNCHANGED <<drivervars, script, log, intrinsics, origin_coord, shape, value_arr,
                   range_arr, z_scores, anomalous_mask, points, extent, grid,
                   grid_coords, labels, vegvars>>

(***************************************************************************)
(* 2_gen_veg_structure.py.  A point cloud is a sequence of runs            *)
(* [p |-> <<x, y, z>>, n |-> count]: n points of the array at the same     *)
(* place, in array order.  Coordinates are integers in half metres.        *)
(***************************************************************************)
\* CELL_SIZE = 1.0 m
CELL_SIZE == 2
\* ground_z_local + 2.5 m
ABOVE_GROUND_MARGIN == 5
MIN_ABOVE_GROUND_POINTS == 100
NUM_PASSES == 5
RANSAC_N == 3
\* distance_threshold = 0.2 m = 2/5 of a half metre
DISTANCE_THRESHOLD == <<2, 5>>
\* buffer_dist = 150 m
BUFFER_DIST == 300
HEIGHT_INIT == -9999

\* pcd.has_points() / points.shape[0]
NumPoints(runs) == SumSeq([k \in 1 .. Len(runs) |-> runs[k].n])

\* a filter that also keeps the points at the margin itself
AboveGround_Inclusive(runs, ground_z) ==
    SelectSeq(runs, LAMBDA r : r.p[3] >= ground_z + ABOVE_GROUND_MARGIN)

\* points_local[points_local[:, 2] > ground_z_local + 2.5]
AboveGround(runs, ground_z) ==
    SelectSeq(runs, LAMBDA r : r.p[3] > ground_z + ABOVE_GROUND_MARGIN)

Sub3(a, b) == <<a[1] - b[1], a[2] - b[2], a[3] - b[3]>>
Dot3(a, b) == a[1] * b[1] + a[2] * b[2] + a[3] * b[3]
Cross3(a, b) == << a[2] * b[3] - a[3] * b[2],
                   a[3] * b[1] - a[1] * b[3],
                   a[1] * b[2] - a[2] * b[1] >>

RECURSIVE GCD(_, _)
GCD(a, b) == IF b = 0 THEN a ELSE GCD(b, a % b)

\* the normal of the plane through three points, as the shortest integer
\* vector of its direction; <<0, 0, 0>> when the points are collinear
PlaneNormal(a, b, c) ==
    LET n == Cross3(Sub3(b, a), Sub3(c, a))
        g == GCD(GCD(Abs(n[1]), Abs(n[2])), Abs(n[3]))
    IN  IF g = 0 THEN n ELSE <<n[1] \div g, n[2] \div g, n[3] \div g>>

\* Squares of the magnitudes met here need more than 32 bits: a number is
\* held as three digits <<d2, d1, d0>> of base 2^15, most significant first.
Norm3(d) ==
    LET m1 == d[2] + d[3] \div 32768
    IN  <<d[1] + m1 \div 32768, m1 % 32768, d[3] % 32768>>

\* a * a, for 0 <= a < 2^30
Square3(a) ==
    LET h == a \div 32768
        l == a % 32768
    IN  Norm3(<<h * h, 2 * h * l, l * l>>)

Add3(d, e) == Norm3(<<d[1] + e[1], d[2] + e[2], d[3] + e[3]>>)

Less3(d, e) ==
    \/ d[1] < e[1]
    \/ d[1] = e[1] /\ d[2] < e[2]
    \/ d[1] = e[1] /\ d[2] = e[2] /\ d[3] < e[3]

\* |n . (p - a)| / |n| < distance_threshold, that is t2 m < t1 |n| with
\* m = |n . (p - a)| and t1 / t2 the threshold; mx <= |n| < 2 mx for the
\* largest component mx of n
IsInlier(p, a, n) ==
    LET m  == Abs(Dot3(n, Sub3(p, a)))
        mx == MaxOf({Abs(n[1]), Abs(n[2]), Abs(n[3])})
        t  == DISTANCE_THRESHOLD
    IN  IF m >= CeilDiv(2 * t[1] * mx, t[2]) THEN FALSE
        ELSE Less3(Square3(t[2] * m),
                   Add3(Add3(Square3(t[1] * Abs(n[1])), Square3(t[1] * Abs(n[2]))),
                        Square3(t[1] * Abs(n[3]))))

\* the index triples segment_plane can sample: three different points of
\* the array, named by their runs
Samples(runs) ==
    {s \in (1 .. Len(runs)) \X (1 .. Len(runs)) \X (1 .. Len(runs)) :
        /\ s[1] <= s[2] /\ s[2] <= s[3]
        /\ \A i \in {s[1], s[2], s[3]} :
              Cardinality({k \in 1 .. 3 : s[k] = i}) <= runs[i].n}

\* the inliers (as run indices) of the plane through one sample; a
\* degenerate sample fits no plane
SampleInliers(runs, s) ==
    LET a == runs[s[1]].p
        n == PlaneNormal(a, runs[s[2]].p, runs[s[3]].p)
    IN  IF n = <<0, 0, 0>> THEN {}
        ELSE {i \in 1 .. Len(runs) : IsInlier(runs[i].p, a, n)}

\* what remaining_pcd.segment_plane(distance_threshold=0.2, ransac_n=3,
\* num_iterations=1000) can return as inliers: the plane of any sample may
\* be the best-supported one among the samples drawn
SegmentPlaneInliers(runs) == {SampleInliers(runs, s) : s \in Samples(runs)}

\* a selection that keeps the inliers instead of the other points
SelectByIndex_NotInverted(runs, inliers) ==
    LET keep == SelectSeq([k \in 1 .. Len(runs) |-> k], LAMBDA k : k \in inliers)
    IN  [k \in 1 .. Len(keep) |-> runs[keep[k]]]

\* remaining_pcd.select_by_index(inliers, invert=True)
SelectByIndexInvert(runs, inliers) ==
    LET keep == SelectSeq([k \in 1 .. Len(runs) |-> k], LAMBDA k : k \notin inliers)
    IN  [k \in 1 .. Len(keep) |-> runs[keep[k]]]

\* a translation that shifts the heights as well
Translate_WithZ(runs, uprn) ==
    [k \in 1 .. Len(runs) |->
        [runs[k] EXCEPT !.p = <<runs[k].p[1] + uprn[1], runs[k].p[2] + uprn[2],
                                runs[k].p[3] + uprn[2]>>]]

\* veg_points_global: columns 0 and 1 shifted by the UPRN coordinate
Translate(runs, uprn) ==
    [k \in 1 .. Len(runs) |->
        [runs[k] EXCEPT !.p = <<runs[k].p[1] + uprn[1], runs[k].p[2] + uprn[2],
                                runs[k].p[3]>>]]

\* extent_min_x, extent_max_x, extent_min_y, extent_max_y
Extent(uprn) ==
    [min_x |-> uprn[1] - BUFFER_DIST, max_x |-> uprn[1] + BUFFER_DIST,
     min_y |-> uprn[2] - BUFFER_DIST, max_y |-> uprn[2] + BUFFER_DIST]

\* extent_min_x <= px < extent_max_x and extent_min_y <= py < extent_max_y
InExtent(ext, p) ==
    /\ ext.min_x <= p[1] /\ p[1] < ext.max_x
    /\ ext.min_y <= p[2] /\ p[2] < ext.max_y

\* <<row, col>> of a point: col = int((px - extent_min_x) / cell_size),
\*                          row = int((extent_max_y - py) / cell_size)
VegCell(ext, p) ==
    << TruncDiv(ext.max_y - p[2], CELL_SIZE), TruncDiv(p[1] - ext.min_x, CELL_SIZE) >>

\* a loop body that clips a point to the nearest border cell
BinPoint_Clipped(raster, ext, p, ground_z) ==
    LET cell == VegCell(ext, p)
        clip == << Min2(MaxOf({cell[1], 0}), raster.rows - 1),
                   Min2(MaxOf({cell[2], 0}), raster.cols - 1) >>
    IN  IF p[3] - ground_z > At(raster, clip)
          THEN Put(raster, clip, p[3] - ground_z)
          ELSE raster

\* a loop body that stores the point's z instead of its height above ground
BinPoint_AbsoluteZ(raster, ext, p, ground_z) ==
    IF InExtent(ext, p) /\ InBounds(raster, VegCell(ext, p))
         /\ p[3] > At(raster, VegCell(ext, p))
      THEN Put(raster, VegCell(ext, p), p[3])
      ELSE raster

\* the body of "for p in veg_points_global" for one point
BinPoint(raster, ext, p, ground_z) ==
    IF InExtent(ext, p) /\ InBounds(raster, VegCell(ext, p))
         /\ p[3] - ground_z > At(raster, VegCell(ext, p))
      THEN Put(raster, VegCell(ext, p), p[3] - ground_z)
      ELSE raster

\* a post-processing that leaves the raster as it is
NegativeToNaN_Skipped(raster) == raster

\* height_raster[height_raster < 0] = np.nan
NegativeToNaN(raster) ==
    LET Fix(v) == IF v # NaN /\ v < 0 THEN NaN ELSE v
        fill   == Fix(raster.fill)
        dom    == {q \in DOMAIN raster.cells : Fix(raster.cells[q]) # fill}
    IN  [raster EXCEPT !.fill = fill,
                       !.cells = [q \in dom |-> Fix(raster.cells[q])]]

\* np.any(~np.isnan(height_raster))
AnyNotNaN(raster) ==
    \/ \E q \in DOMAIN raster.cells : raster.cells[q] # NaN
    \/ raster.fill # NaN /\ Positions(raster) # DOMAIN raster.cells

\* process_veg_structural, lines 40-53
Veg_AboveGround ==
    /\ script = "veg2" /\ run = "looping" /\ pc = "loaded"
    /\ IF NumPoints(cloud) = 0
         THEN /\ result' = "EMPTY_PCD" /\ pc' = "returned"
              /\ UNCHANGED <<ground_z_local, remaining_pcd>>
         ELSE /\ ground_z_local' = MinOf({cloud[k].p[3] : k \in 1 .. Len(cloud)})
              /\ LET above == AboveGround(cloud, ground_z_local')
                 IN  IF NumPoints(above) < MIN_ABOVE_GROUND_POINTS
                       THEN /\ result' = "NO_ABOVE_GROUND_POINTS"
                            /\ pc' = "returned"
                            /\ UNCHANGED remaining_pcd
                       ELSE /\ remaining_pcd' = above
                            /\ pc' = "stripping"
                            /\ UNCHANGED result
    /\ UNCHANGED <<drivervars, script, outcome, log, intrinsics, origin_coord, cloud, passes,
                   veg_points_global, height_raster, next_point, imgvars,
                   thermalvars>>

\* one pass of "for _ in range(5)": segment_plane, select_by_index
Veg_StripPlane ==
    /\ script = "veg2" /\ pc = "stripping" /\ passes < NUM_PASSES
    /\ IF NumPoints(remaining_pcd) < RANSAC_N
         \* segment_plane raises: fewer points than ransac_n
         THEN /\ pc' = "done" /\ outcome' = "failed"
              /\ log' = "PYTHON ERROR"
              /\ UNCHANGED <<remaining_pcd, passes>>
         ELSE /\ \E inliers \in SegmentPlaneInliers(remaining_pcd) :
                    remaining_pcd' = SelectByIndexInvert(remaining_pcd, inliers)
              /\ passes' = passes + 1
              /\ UNCHANGED <<pc, outcome, log>>
    /\ UNCHANGED <<drivervars, script, intrinsics, origin_coord, cloud, ground_z_local,
                   veg_points_global, height_raster, next_point, result, imgvars,
                   thermalvars>>

\* lines 60-77: the residual, its translation, the extent and the empty raster
Veg_Translate ==
    /\ script = "veg2" /\ pc = "stripping" /\ passes = NUM_PASSES
    /\ IF NumPoints(remaining_pcd) = 0
         THEN /\ result' = "NO_COMPLEX_STRUCTURES" /\ pc' = "returned"
              /\ UNCHANGED <<veg_points_global, height_raster, next_point>>
         ELSE /\ veg_points_global' = Translate(remaining_pcd, origin_coord)
              /\ height_raster' =
                    FullRaster(CeilDiv(2 * BUFFER_DIST, CELL_SIZE),
                               CeilDiv(2 * BUFFER_DIST, CELL_SIZE), HEIGHT_INIT)
              /\ next_point' = 1
              /\ pc' = "binning"
              /\ UNCHANGED result
    /\ UNCHANGED <<drivervars, script, outcome, log, intrinsics, origin_coord, cloud,
                   ground_z_local, remaining_pcd, passes, imgvars, thermalvars>>

\* lines 79-89, the iterations of the loop over one run of equal points
Veg_BinPoint ==
    /\ script = "veg2" /\ pc = "binning"
    /\ next_point <= Len(veg_points_global)
    /\ height_raster' = BinPoint(height_raster, Extent(origin_coord),
                                 veg_points_global[next_point].p, ground_z_local)
    /\ next_point' = next_point + 1
    /\ UNCHANGED <<drivervars, script, pc, outcome, log, intrinsics, origin_coord, cloud,
                   ground_z_local, remaining_pcd, passes, veg_points_global,
                   result, imgvars, thermalvars>>

\* lines 91-97: negative cells to NaN, the no-points check, the return
Veg_PostProcess ==
    /\ script = "veg2" /\ pc = "binning"
    /\ next_point > Len(veg_points_global)
    /\ height_raster' = NegativeToNaN(height_raster)
    /\ result' = IF AnyNotNaN(height_raster') THEN "RASTER" ELSE "NO_POINTS_IN_EXTENT"
    /\ pc' = "returned"
    /\ UNCHANGED <<drivervars, script, outcome, log, intrinsics, origin_coord, cloud,
                   ground_z_local, remaining_pcd, passes, veg_points_global,
                   next_point, imgvars, thermalvars>>

\* a driver that skips the save for an empty point cloud only
LowerLeftIsNone_EmptyOnly(res) == res = "EMPTY_PCD"

\* lower_left_corner is None: the second element of the returns at lines 42,
\* 50, 62 and 94
LowerLeftIsNone(res) ==
    res \in {"EMPTY_PCD", "NO_ABOVE_GROUND_POINTS", "NO_COMPLEX_STRUCTURES",
             "NO_POINTS_IN_EXTENT"}

\* main(): "if lower_left_corner is None: continue", else
\* arcpy.NumPyArrayToRaster(height_data, lower_left_corner, ...).save(out_path)
Veg_Save ==
    /\ script = "veg2" /\ pc = "returned"
    /\ pc' = "done"
    /\ outcome' = IF LowerLeftIsNone(result) THEN "skipped" ELSE "written"
    /\ UNCHANGED <<drivervars, script, log, intrinsics, origin_coord, vegvars, imgvars,
                   thermalvars>>


(***************************************************************************)
(* The inputs explored: one entity of one script.                          *)
(***************************************************************************)
ImageOrigins == {<<500000000, 200000000>>}
VegOrigins == {<<1000001, 400003>>}

NoThermal ==
    /\ extent = <<>> /\ grid = <<>> /\ grid_coords = <<>> /\ labels = <<>>
    /\ output_raster_array = <<>>

NoVeg ==
    /\ cloud = <<>> /\ ground_z_local = 0 /\ remaining_pcd = <<>> /\ passes = 0
    /\ veg_points_global = <<>> /\ height_raster = <<>> /\ next_point = 0
    /\ result = ""

NoImage ==
    /\ shape = <<0, 0>> /\ value_arr = <<>> /\ range_arr = <<>>
    /\ z_scores = <<>> /\ anomalous_mask = <<>> /\ points = <<>>

Start ==
    /\ run = "starting" /\ matched = NumEntities /\ attempts = <<>>
    /\ pc = "loaded" /\ outcome = "" /\ log = ""

\* the range image [[1000, 2000], [0, 1500]]
ExampleRange ==
    [q \in Pixels(<<2, 2>>) |->
        CASE q = <<0, 0>> -> 1000 [] q = <<0, 1>> -> 2000
          [] q = <<1, 0>> -> 0    [] q = <<1, 1>> -> 1500]

\* NDVI images of four pixels, every range class at every pixel, and the
\* range image above
InitNdvi ==
    /\ script = "ndvi3c" /\ Start
    /\ intrinsics \in {BeamIntrinsics, SteepIntrinsics} /\ NoThermal /\ NoVeg
    /\ origin_coord \in ImageOrigins
    /\ shape \in {<<2, 2>>, <<4, 1>>, <<1, 4>>}
    /\ value_arr \in [Pixels(shape) -> 0 .. MaxValue]
    /\ range_arr \in [Pixels(shape) -> {0, 1500, RANGE_SANITY_MAX}]
                      \cup (IF shape = <<2, 2>> THEN {ExampleRange} ELSE {})
    /\ z_scores = <<>> /\ anomalous_mask = <<>> /\ points = <<>>

\* reflectance images: one column of five pixels (rows 0-1 in range or at
\* 0, rows 2-4 in range or at the sanity limit), or 2 x 2 with every
\* pixel in range
ReflecRanges(shp) ==
    IF shp = <<5, 1>>
      THEN {f \in [Pixels(shp) -> {0, 1500, RANGE_SANITY_MAX}] :
               \A p \in Pixels(shp) : (p[1] < 2 => f[p] # RANGE_SANITY_MAX)
                                   /\ (p[1] >= 2 => f[p] # 0)}
      ELSE {[p \in Pixels(shp) |-> 1500 + 500 * p[1]]}

\* a column of seven values with mean 2 and deviation 2: the two entries of
\* value 5 have the z-score 1.5
ThresholdColumn ==
    [q \in Pixels(<<7, 1>>) |-> <<0, 0, 1, 1, 2, 5, 5>>[q[1] + 1]]

InitReflec ==
    /\ script = "reflec5" /\ Start /\ intrinsics = BeamIntrinsics /\ NoThermal /\ NoVeg
    /\ origin_coord \in ImageOrigins
    /\ shape \in {<<5, 1>>, <<2, 2>>, <<7, 1>>}
    /\ value_arr \in IF shape = <<7, 1>> THEN {ThresholdColumn}
                     ELSE [Pixels(shape) -> 0 .. MaxReflec]
    /\ range_arr \in ReflecRanges(shape)
    /\ z_scores = <<>> /\ anomalous_mask = <<>> /\ points = <<>>

\* Thermal images of ThermalRows x ThermalCols pixels at 20 degrees and
\* out of range, except in row 0:
\*   pixel 0 (the only one on the x axis) at range rx;
\*   then a run of L1 pixels on consecutive grid cells (250 mm apart),
\*   then a run of L2 such pixels G cells further, all at temperature TA;
\*   then one pixel dup, 200 mm out (the cell of the first run's start).
\* nanrow: the last row of temp_data is NaN.
ThermalParams ==
    [L1 : {0, 2, 9, 10}, G : {0, 2, 6}, L2 : {0, 2, 10}, rx : {0, 300, 500, 1400},
     TA : {20, 30},
     dup : {[rng |-> 0, temp |-> 20], [rng |-> 200, temp |-> 25],
            [rng |-> 200, temp |-> 35], [rng |-> 200, temp |-> NaN]},
     nanrow : BOOLEAN]

ThermalShape == <<ThermalRows, ThermalCols>>

ThermalTemp(tp) ==
    [p \in Pixels(ThermalShape) |->
        IF p[1] = 0
          THEN IF p[2] <= tp.L1 + tp.L2 THEN tp.TA
               ELSE IF p[2] = tp.L1 + tp.L2 + 1 THEN tp.dup.temp ELSE 20
          ELSE IF tp.nanrow /\ p[1] = ThermalRows - 1 THEN NaN ELSE 20]

ThermalRange(tp) ==
    [p \in Pixels(ThermalShape) |->
        IF p[1] # 0 THEN 0
        ELSE IF p[2] = 0 THEN tp.rx
        ELSE IF p[2] <= tp.L1 THEN 100 + 250 * (p[2] - 1)
        ELSE IF p[2] <= tp.L1 + tp.L2 THEN 100 + 250 * (p[2] - 1 + tp.G)
        ELSE IF p[2] = tp.L1 + tp.L2 + 1 THEN tp.dup.rng
        ELSE 0]

InitThermal ==
    /\ script = "thermal4b" /\ Start /\ intrinsics = BeamIntrinsics /\ NoThermal /\ NoVeg
    /\ origin_coord \in ImageOrigins
    /\ shape = ThermalShape
    /\ \/ \E tp \in ThermalParams :
             /\ value_arr = ThermalTemp(tp)
             /\ range_arr = ThermalRange(tp)
       \* an image without a single temperature
       \/ /\ value_arr = [q \in Pixels(ThermalShape) |-> NaN]
          /\ range_arr = [q \in Pixels(ThermalShape) |-> 1500]
    /\ z_scores = <<>> /\ anomalous_mask = <<>> /\ points = <<>>

\* Point clouds: a ground run, then NumRuns runs at places of the palette,
\* in the palette's order or in the opposite one
\* (local coordinates, half metres; the extent is [-300, 300) around the
\* sensor):
\*   <<1, 1, 6>>, <<0, 1, 9>>   one cell, two heights
\*   <<4, -300, 7>>             on the lower y edge of the extent
\*   <<-300, 299, 8>>           the top-left cell
\*   <<-301, 301, 10>>          outside, left and above
\*   <<300, 3, 10>>             on the upper x edge (outside)
\*   <<2, 2, 5>>                within the above-ground margin of z = 0
Palette ==
    << <<1, 1, 6>>, <<0, 1, 9>>, <<4, -300, 7>>, <<-300, 299, 8>>,
       <<-301, 301, 10>>, <<300, 3, 10>>, <<2, 2, 5>> >>

\* the orders of the runs explored: along the palette, or against it
Orders ==
    {f \in [1 .. NumRuns -> 1 .. Len(Palette)] :
        \/ \A i, j \in 1 .. NumRuns : i < j => f[i] <= f[j]
        \/ \A i, j \in 1 .. NumRuns : i < j => f[i] >= f[j]}

Clouds ==
    {<<>>} \cup
    {<<[p |-> <<0, 0, gz>>, n |-> 50]>> \o
       [k \in 1 .. NumRuns |->
           [p |-> Palette[f[k]], n |-> IF k = 1 THEN n1 ELSE 50]] :
       gz \in {0, -3}, n1 \in {49, 50}, f \in Orders}

InitVeg ==
    /\ script = "veg2" /\ Start /\ intrinsics = BeamIntrinsics /\ NoThermal /\ NoImage
    /\ origin_coord \in VegOrigins
    /\ cloud \in Clouds
    /\ ground_z_local = 0 /\ remaining_pcd = <<>> /\ passes = 0
    /\ veg_points_global = <<>> /\ height_raster = <<>> /\ next_point = 0
    /\ result = ""

\* Solar entities: an unreadable or empty point cloud, or one with points
SolarClouds == {<<>>, <<[p |-> <<0, 0, 0>>, n |-> 1]>>}

InitSolar ==
    /\ script = "solar6" /\ Start /\ intrinsics = BeamIntrinsics /\ NoThermal /\ NoImage
    /\ origin_coord \in VegOrigins
    /\ cloud \in SolarClouds
    /\ ground_z_local = 0 /\ remaining_pcd = <<>> /\ passes = 0
    /\ veg_points_global = <<>> /\ height_raster = <<>> /\ next_point = 0
    /\ result = ""

(***************************************************************************)
(* 6_solar_radiation_analysis.py: the body of the entity loop.  The arcpy  *)
(* tools are outside the model: each call either returns or raises.        *)
(***************************************************************************)
\* lines 104-144: read_point_cloud; "if not pcd.has_points(): continue";
\* the feature class, PointToRaster, AreaSolarRadiation and save, any of
\* which may raise into "except Exception", which appends to failed_uprns
Solar_Process ==
    /\ script = "solar6" /\ run = "looping" /\ pc = "loaded"
    /\ IF NumPoints(cloud) = 0
         THEN outcome' = "skipped" /\ UNCHANGED log
         ELSE \E raised \in BOOLEAN :
                 IF raised
                   THEN outcome' = "failed" /\ log' = "Error"
                   ELSE outcome' = "written" /\ UNCHANGED log
    /\ pc' = "cleanup"
    /\ UNCHANGED <<drivervars, script, intrinsics, origin_coord, imgvars,
                   thermalvars, vegvars>>

\* lines 145-150, the finally clause of the entity: arcpy.Exists and
\* arcpy.management.Delete of the intermediate files.  An exception raised
\* here is not inside the try of the entity: it leaves the for loop.
Solar_Cleanup ==
    /\ script = "solar6" /\ pc = "cleanup"
    /\ \E raised \in BOOLEAN :
          IF raised THEN run' = "aborted" ELSE UNCHANGED run
    /\ pc' = "done"
    /\ UNCHANGED <<matched, attempts, script, outcome, log, intrinsics,
                   origin_coord, imgvars, thermalvars, vegvars>>

(***************************************************************************)
(* main(): start-up and the loop over the matched entities.                *)
(***************************************************************************)
\* main() from its first line to the first iteration of the entity loop.
\* Only 3c looks at the keys of the intrinsics; its ValueError leaves main().
Startup ==
    /\ run = "starting"
    /\ IF script = "ndvi3c" /\ ~HasRequiredKeys(intrinsics)
         THEN run' = "aborted" /\ UNCHANGED attempts
         ELSE run' = "looping" /\ attempts' = <<1>>
    /\ UNCHANGED <<matched, script, pc, outcome, log, intrinsics, origin_coord,
                   imgvars, thermalvars, vegvars>>

\* the thermal image of a later entity
LaterThermal(l2) ==
    [L1 |-> 10, G |-> 0, L2 |-> l2, rx |-> 300, TA |-> 30,
     dup |-> [rng |-> 0, temp |-> 20], nanrow |-> FALSE]

\* The entities after the first one of a run: a few of each script's
\* inputs, with the fields other scripts use left empty.
LaterEntities(s) ==
    CASE s = "ndvi3c" ->
           {[shape |-> <<2, 2>>, cloud |-> <<>>,
             value_arr |-> [q \in Pixels(<<2, 2>>) |-> 0],
             range_arr |-> [q \in Pixels(<<2, 2>>) |-> r]] : r \in {0, 1500}}
      [] s = "reflec5" ->
           {[shape |-> <<2, 2>>, cloud |-> <<>>,
             value_arr |-> [q \in Pixels(<<2, 2>>) |-> v * q[1]],
             range_arr |-> [q \in Pixels(<<2, 2>>) |-> 1500]] : v \in {0, 1}}
      [] s = "thermal4b" ->
           {[shape |-> ThermalShape, cloud |-> <<>>,
             value_arr |-> ThermalTemp(LaterThermal(l2)),
             range_arr |-> ThermalRange(LaterThermal(l2))] : l2 \in {0, 10}}
      [] s = "veg2" ->
           {[shape |-> <<0, 0>>, cloud |-> c, value_arr |-> <<>>,
             range_arr |-> <<>>] :
              c \in {<<>>,
                     <<[p |-> <<0, 0, 0>>, n |-> 50]>> \o
                       [k \in 1 .. NumRuns |-> [p |-> Palette[k], n |-> 50]]}}
      [] s = "solar6" ->
           {[shape |-> <<0, 0>>, cloud |-> c, value_arr |-> <<>>,
             range_arr |-> <<>>] : c \in SolarClouds}

\* the variables of the loop body at the top of an iteration
LoadEntity(e) ==
    /\ pc' = "loaded" /\ outcome' = "" /\ log' = ""
    /\ shape' = e.shape /\ value_arr' = e.value_arr /\ range_arr' = e.range_arr
    /\ z_scores' = <<>> /\ anomalous_mask' = <<>> /\ points' = <<>>
    /\ extent' = <<>> /\ grid' = <<>> /\ grid_coords' = <<>> /\ labels' = <<>>
    /\ output_raster_array' = <<>>
    /\ cloud' = e.cloud
    /\ ground_z_local' = 0 /\ remaining_pcd' = <<>> /\ passes' = 0
    /\ veg_points_global' = <<>> /\ height_raster' = <<>> /\ next_point' = 0
    /\ result' = ""

\* the for statement takes the next entity of the list
NextEntity ==
    /\ run = "looping" /\ pc = "done" /\ Len(attempts) < matched
    /\ attempts' = Append(attempts, Len(attempts) + 1)
    /\ \E e \in LaterEntities(script) : LoadEntity(e)
    /\ UNCHANGED <<run, matched, script, intrinsics, origin_coord>>

\* the for statement finds the list exhausted; the finally clause of main()
LoopEnd ==
    /\ run = "looping" /\ pc = "done" /\ Len(attempts) = matched
    /\ run' = "complete"
    /\ UNCHANGED <<matched, attempts, script, pc, outcome, log, intrinsics,
                   origin_coord, imgvars, thermalvars, vegvars>>

\* Intrinsics files that lack one of the two keys, or hold an empty list
MalformedIntrinsics ==
    {[beam_azimuth_angles |-> <<0, 90>>],
     [beam_altitude_angles |-> <<0, 37>>],
     [beam_altitude_angles |-> <<>>, beam_azimuth_angles |-> <<0, 90>>],
     [beam_altitude_angles |-> <<0, 37>>, beam_azimuth_angles |-> <<>>]}

\* runs of the three projecting scripts with such a file
InitMalformed ==
    /\ script \in {"ndvi3c", "reflec5", "thermal4b"} /\ Start
    /\ intrinsics \in MalformedIntrinsics
    /\ NoThermal /\ NoVeg
    /\ origin_coord \in ImageOrigins
    /\ \E e \in LaterEntities(script) :
          shape = e.shape /\ value_arr = e.value_arr /\ range_arr = e.range_arr
    /\ z_scores = <<>> /\ anomalous_mask = <<>> /\ points = <<>>

Init ==
    InitNdvi \/ InitReflec \/ InitThermal \/ InitVeg \/ InitSolar
    \/ InitMalformed

Next ==
    \/ Ndvi_Georeference
    \/ Ndvi_CreateRaster
    \/ Reflec_ZScore
    \/ Reflec_Georeference
    \/ Reflec_KernelDensity
    \/ Thermal_CheckData
    \/ Thermal_Georeference
    \/ Thermal_Grid
    \/ Thermal_Cluster
    \/ Thermal_Write
    \/ Veg_AboveGround
    \/ Veg_StripPlane
    \/ Veg_Translate
    \/ Veg_BinPoint
    \/ Veg_PostProcess
    \/ Veg_Save
    \/ Solar_Process
    \/ Solar_Cleanup
    \/ Startup
    \/ NextEntity
    \/ LoopEnd

Spec == Init /\ [][Next]_vars

(***************************************************************************)
(* Properties.                                                             *)
(***************************************************************************)
\* the elements of S up to p, and p itself, in row-major order
UpTo(p, S) == {q \in S : q[1] < p[1] \/ (q[1] = p[1] /\ q[2] <= p[2])}

Reverse(s) == [k \in 1 .. Len(s) |-> s[Len(s) + 1 - k]]

\* georeference_pixels_to_points has returned to main()
ThermalProjected == script = "thermal4b" /\ DOMAIN anomalous_mask # {}
ReflecProjected == script = "reflec5" /\ DOMAIN anomalous_mask # {} /\ pc # "masked"

\* the pixels a masked projection may draw from
MaskedValidPixels ==
    {p \in Pixels(shape) :
        anomalous_mask[p] /\ 0 < range_arr[p] /\ range_arr[p] < 100000}

FromMaskedPixels(image) ==
    /\ Len(points) <= Cardinality(MaskedValidPixels)
    /\ \A k \in 1 .. Len(points) : \E p \in MaskedValidPixels :
          points[k] = ProjectPixel(p, image, range_arr, intrinsics, origin_coord)

\* C1: in the pipelines that pass a mask (4b and 5), every point that
\* georeference_pixels_to_points returns is the projection of a pixel whose
\* mask entry is true and whose range lies strictly between 0 and 100000.
C1_PointsOnlyFromMaskedPixels ==
    /\ ThermalProjected => FromMaskedPixels(value_arr)
    /\ ReflecProjected => FromMaskedPixels(z_scores)

ValidPixels ==
    {p \in Pixels(shape) : 0 < range_arr[p] /\ range_arr[p] < 100000}

\* pts holds the projections of the valid pixels, one each, in pixel order
OnePointPerValidPixel(pts, image) ==
    /\ Len(pts) = Cardinality(ValidPixels)
    /\ \A p \in ValidPixels :
          LET pt == pts[Cardinality(UpTo(p, ValidPixels))]
          IN  /\ pt = ProjectPixel(p, image, range_arr, intrinsics, origin_coord)
              /\ pt[4] = image[p]

\* the intrinsics hold both angle lists and neither is empty
WellFormedIntrinsics ==
    /\ {"beam_altitude_angles", "beam_azimuth_angles"} \subseteq DOMAIN intrinsics
    /\ intrinsics.beam_altitude_angles # <<>>
    /\ intrinsics.beam_azimuth_angles # <<>>

\* C2: with an all-true mask (3c always; 5 when the mask is all true or
\* left out) and usable intrinsics the points are exactly one per pixel with
\* 0 < range < 100000, none for the other pixels, each with the value of
\* its own pixel.
C2_OnePointPerValidPixel ==
    /\ (script = "ndvi3c" /\ pc # "loaded" /\ WellFormedIntrinsics) =>
           OnePointPerValidPixel(points, value_arr)
    /\ (script = "reflec5" /\ WellFormedIntrinsics) =>
           /\ OnePointPerValidPixel(
                  GeorefReflec(shape, value_arr, range_arr, intrinsics,
                               origin_coord, FullTrue(shape)), value_arr)
           /\ OnePointPerValidPixel(
                  GeorefReflec(shape, value_arr, range_arr, intrinsics,
                               origin_coord, None), value_arr)

\* an NDVI image with a pixel at range 0, one at the sanity limit and two
\* valid pixels of different values, projected
C2_Witness ==
    /\ script = "ndvi3c" /\ pc = "projected"
    /\ \E p \in Pixels(shape) : range_arr[p] = 0
    /\ \E p \in Pixels(shape) : range_arr[p] = 100000
    /\ Len(points) = 2 /\ points[1][4] # points[2][4]

\* the rasterizer's loop over the residual points has ended
BinningDone ==
    script = "veg2" /\ pc = "binning" /\ next_point > Len(veg_points_global)

\* a point of the declared extent [min_x, max_x) x [min_y, max_y), 150 m
\* (300 half metres) either side of the UPRN coordinate
InDeclaredExtent(p) ==
    /\ origin_coord[1] - 300 <= p[1] /\ p[1] < origin_coord[1] + 300
    /\ origin_coord[2] - 300 <= p[2] /\ p[2] < origin_coord[2] + 300

\* <<floor((max_y - y) / cell_size), floor((x - min_x) / cell_size)>>
FloorCell(p) ==
    << (origin_coord[2] + 300 - p[2]) \div CELL_SIZE,
       (p[1] - (origin_coord[1] - 300)) \div CELL_SIZE >>

\* C3: once the loop has ended, every residual point inside the declared
\* extent has its cell <<row, col>> inside the rows x cols grid, and that
\* cell holds a height no smaller than the point's.
C3_InExtentPointHasItsCell ==
    BinningDone =>
        \A k \in 1 .. Len(veg_points_global) :
            LET p == veg_points_global[k].p
            IN  InDeclaredExtent(p) =>
                    /\ InBounds(height_raster, FloorCell(p))
                    /\ At(height_raster, FloorCell(p)) >= p[3] - ground_z_local

\* C4: in both grids, of two points in the same column the one with the
\* larger y never gets the larger row index.
C4_TopDownRows ==
    /\ (script = "thermal4b" /\ pc = "gridded") =>
          LET idx == PointCells(points, extent.min_x, extent.min_y)
          IN  \A i, j \in 1 .. Len(points) :
                 (idx[i][2] = idx[j][2] /\ points[i][2] > points[j][2])
                     => idx[i][1] <= idx[j][1]
    /\ BinningDone =>
          \A i, j \in 1 .. Len(veg_points_global) :
             LET p == veg_points_global[i].p
                 q == veg_points_global[j].p
                 ext == Extent(origin_coord)
             IN  (VegCell(ext, p)[2] = VegCell(ext, q)[2] /\ p[2] > q[2])
                     => VegCell(ext, p)[1] <= VegCell(ext, q)[1]

\* C5: an iteration of the rasterizer's loop on a point with x or y
\* outside [min, max) leaves every cell of the height raster as it was.
C5_OutOfExtentPointDropped ==
    [][(/\ script = "veg2" /\ pc = "binning"
        /\ next_point <= Len(veg_points_global)
        /\ next_point' = next_point + 1
        /\ ~InDeclaredExtent(veg_points_global[next_point].p))
            => height_raster' = height_raster]_vars

\* the loop has just passed a point outside the extent, after binning
\* another one
C5_Witness ==
    /\ script = "veg2" /\ pc = "binning" /\ next_point > 2
    /\ ~InDeclaredExtent(veg_points_global[next_point - 1].p)
    /\ DOMAIN height_raster.cells # {}

\* the residual points the loop bins, by index
Binned ==
    {k \in 1 .. Len(veg_points_global) :
        /\ InDeclaredExtent(veg_points_global[k].p)
        /\ InBounds(height_raster, FloorCell(veg_points_global[k].p))}

\* the cells the loop writes
BinnedCells == {FloorCell(veg_points_global[k].p) : k \in Binned}

BinnedInto(cell) == {k \in Binned : FloorCell(veg_points_global[k].p) = cell}

\* the rasterizer's loop run over a whole cloud
RECURSIVE BinAll(_, _)
BinAll(raster, runs) ==
    IF runs = <<>> THEN raster
    ELSE BinAll(BinPoint(raster, Extent(origin_coord), Head(runs).p, ground_z_local),
                Tail(runs))

VegPostProcessed ==
    script = "veg2" /\ result \in {"RASTER", "NO_POINTS_IN_EXTENT"}

\* C7: after post-processing, the cells that hold a height are exactly the
\* cells some in-extent residual point was binned into; every other cell is
\* NaN.
C7_NodataIffNoPoint ==
    VegPostProcessed =>
        /\ height_raster.fill = NaN
        /\ \A c \in DOMAIN height_raster.cells : height_raster.cells[c] # NaN
        /\ DOMAIN height_raster.cells = BinnedCells

\* a returned raster with a populated cell, from a residual that also has
\* a point the loop did not bin
C7_Witness ==
    /\ VegPostProcessed /\ result = "RASTER"
    /\ DOMAIN height_raster.cells # {}
    /\ Binned # 1 .. Len(veg_points_global)

\* DBSCAN has run on the occupied cells
Clustered == script = "thermal4b" /\ Len(labels) > 0

\* C8: in the written cluster raster every cell with label L >= 0 holds
\* L + 1, every noise cell and every unoccupied cell holds -1, and no cell
\* holds 0.
C8_ClusterIdsFromOne ==
    (script = "thermal4b" /\ outcome = "written") =>
        /\ output_raster_array.fill = -1
        /\ \A k \in 1 .. Len(grid_coords) :
              At(output_raster_array, <<grid_coords[k][2], grid_coords[k][1]>>) =
                  IF labels[k] >= 0 THEN labels[k] + 1 ELSE -1
        /\ \A c \in DOMAIN output_raster_array.cells :
              /\ output_raster_array.cells[c] >= 1
              /\ \E k \in 1 .. Len(grid_coords) : grid_coords[k] = <<c[2], c[1]>>

\* a written raster of two clusters and a noise cell
C8_Witness ==
    /\ script = "thermal4b" /\ outcome = "written"
    /\ \E k \in 1 .. Len(labels) : labels[k] = -1
    /\ \E k \in 1 .. Len(labels) : labels[k] = 1

\* occupied cells i and j lie within eps of each other
WithinEps(i, j) ==
    (grid_coords[i][1] - grid_coords[j][1]) * (grid_coords[i][1] - grid_coords[j][1])
    + (grid_coords[i][2] - grid_coords[j][2]) * (grid_coords[i][2] - grid_coords[j][2])
        <= 5 * 5

\* the occupied cells with at least min_samples occupied cells (themselves
\* included) within eps
DenseCells ==
    {i \in 1 .. Len(grid_coords) :
        Cardinality({j \in 1 .. Len(grid_coords) : WithinEps(i, j)}) >= 10}

\* C9 as stated: any two occupied cells within eps of each other (hence any
\* two linked by a chain of such pairs) have the same non-noise label.
C9_LinkedCellsSameLabel ==
    Clustered =>
        \A i, j \in 1 .. Len(grid_coords) :
            (i # j /\ WithinEps(i, j)) => (labels[i] = labels[j] /\ labels[i] # -1)

\* C9 amended: any two occupied cells that each have at least min_samples
\* occupied cells within eps, and lie within eps of each other (hence any
\* two linked by a chain of such cells), have the same non-noise label.
C9_LinkedDenseCellsSameLabel ==
    Clustered =>
        \A i, j \in DenseCells :
            WithinEps(i, j) => (labels[i] = labels[j] /\ labels[i] # -1)

\* two dense cells more than eps apart that a chain of dense cells links
\* into one cluster
C9_Witness ==
    /\ Clustered
    /\ \E i, j \in DenseCells :
          /\ ~WithinEps(i, j) /\ labels[i] = labels[j] /\ labels[i] # -1
          /\ \E m \in DenseCells : WithinEps(i, m) /\ WithinEps(m, j)

\* C10 as stated: an occupied cell with fewer than min_samples occupied
\* cells within eps is labelled noise.
C10_SparseCellIsNoise ==
    Clustered =>
        \A i \in 1 .. Len(grid_coords) : i \notin DenseCells => labels[i] = -1

\* C10 amended: an occupied cell with fewer than min_samples occupied cells
\* within eps, none of which has min_samples within eps either, is labelled
\* noise.
C10_SparseCellAwayFromDenseIsNoise ==
    Clustered =>
        \A i \in 1 .. Len(grid_coords) :
            (i \notin DenseCells /\ \A j \in DenseCells : ~WithinEps(i, j))
                => labels[i] = -1

\* a clustering with a cluster and a noise cell that has an occupied but
\* no dense cell within eps
C10_Witness ==
    /\ Clustered
    /\ \E k \in 1 .. Len(labels) : labels[k] # -1
    /\ \E i \in 1 .. Len(grid_coords) :
          /\ labels[i] = -1
          /\ \E j \in 1 .. Len(grid_coords) : j # i /\ WithinEps(i, j)
          /\ \A j \in DenseCells : ~WithinEps(i, j)


\* the thermal driver has counted the occupied cells of its grid
CellsCounted ==
    /\ script = "thermal4b" /\ pc \in {"clustered", "done"}
    /\ grid # <<>> /\ outcome # "failed"

\* georeference_pixels_to_points has returned its points to the thermal driver
ThermalPointsReturned ==
    script = "thermal4b" /\ DOMAIN anomalous_mask # {} /\ outcome # "failed"

\* C11: in the thermal driver, fewer than 10 projected points end the entity
\* as skipped with the not-enough-points message before any grid exists, and
\* fewer than 10 occupied grid cells end it as skipped with the
\* not-enough-cells message; in both cases DBSCAN has produced no labels and
\* no cluster raster exists, and labels or a written raster exist only with
\* at least 10 points and at least 10 occupied cells.
C11_NoClusteringBelowMinSamples ==
    script = "thermal4b" =>
        /\ (ThermalPointsReturned /\ Len(points) < 10) =>
               /\ pc = "done" /\ outcome = "skipped"
               /\ log = "SKIPPED: Not enough anomalous points for clustering."
               /\ grid = <<>> /\ labels = <<>> /\ output_raster_array = <<>>
        /\ (CellsCounted /\ Len(WhereGreater(grid, -9999)) < 10) =>
               /\ pc = "done" /\ outcome = "skipped"
               /\ log = "SKIPPED: Not enough valid grid cells for clustering."
               /\ labels = <<>> /\ output_raster_array = <<>>
        /\ (labels # <<>> \/ output_raster_array # <<>> \/ outcome = "written") =>
               /\ Len(points) >= 10
               /\ Len(WhereGreater(grid, -9999)) >= 10

\* ten or more points fell into fewer than ten cells, and the entity was
\* skipped without labels
C11_Witness ==
    /\ CellsCounted /\ Len(points) >= 10
    /\ Len(WhereGreater(grid, -9999)) \in 1 .. 9
    /\ outcome = "skipped" /\ labels = <<>>

\* between one and nine points were projected, and the entity was skipped
C11_WitnessPoints ==
    /\ script = "thermal4b" /\ DOMAIN anomalous_mask # {}
    /\ Len(points) \in 1 .. 9 /\ outcome = "skipped" /\ grid = <<>>


\* ceil(span / 0.25 m) of the bounding box of the points, spans in mm
SpanCols == (extent.max_x - extent.min_x + 249) \div 250
SpanRows == (extent.max_y - extent.min_y + 249) \div 250

\* C12: once the thermal driver has taken the bounding box of the points,
\* the entity carries the invalid-grid-dimensions skip exactly when the
\* ceiling of a span over the cell size is 0, and then it has ended as
\* skipped with no grid allocated, no cells collected, no labels and no
\* cluster raster.
C12_ZeroSizedGridSkipped ==
    (script = "thermal4b" /\ extent # <<>>) =>
        /\ (SpanCols = 0 \/ SpanRows = 0) <=>
               log = "SKIPPED: Invalid grid dimensions."
        /\ (SpanCols = 0 \/ SpanRows = 0) =>
               /\ pc = "done" /\ outcome = "skipped"
               /\ grid = <<>> /\ grid_coords = <<>>
               /\ labels = <<>> /\ output_raster_array = <<>>

\* ten or more points that share one x, with different y, were skipped
C12_Witness ==
    /\ script = "thermal4b" /\ extent # <<>>
    /\ Len(points) >= 10
    /\ extent.max_x = extent.min_x /\ extent.max_y > extent.min_y
    /\ outcome = "skipped" /\ grid = <<>>


\* process_veg_structural has ended, by return or by exception, after at
\* least one plane was stripped
VegEndedAfterStripping ==
    script = "veg2" /\ passes > 0 /\ pc \in {"returned", "done"}

\* C13: when the vegetation function ends with an empty residual after
\* stripping planes, it has returned NO_COMPLEX_STRUCTURES and has not
\* raised, also when the residual became empty before the fifth pass.
C13_EmptyResidualIsNamedOutcome ==
    (VegEndedAfterStripping /\ NumPoints(remaining_pcd) = 0) =>
        /\ result = "NO_COMPLEX_STRUCTURES"
        /\ outcome # "failed"


\* the lowest z of the whole input cloud
LowestZ == MinOf({cloud[k].p[3] : k \in 1 .. Len(cloud)})

\* the runs of the input strictly more than 2.5 m (5 half metres) above it
StrictlyAbove == SelectSeq(cloud, LAMBDA r : r.p[3] > LowestZ + 5)

\* C14: for a non-empty cloud, ground_z is the lowest z of the whole input
\* and the filter keeps exactly the points with z > ground_z + 2.5; with
\* fewer than 100 kept the function has returned NO_ABOVE_GROUND_POINTS
\* without a plane-stripping pass, and with 100 or more kept it never
\* returns that outcome.
C14_AboveGroundFilter ==
    (script = "veg2" /\ pc # "loaded" /\ NumPoints(cloud) > 0) =>
        /\ ground_z_local = LowestZ
        /\ NumPoints(StrictlyAbove) < 100 =>
               /\ result = "NO_ABOVE_GROUND_POINTS"
               /\ passes = 0 /\ remaining_pcd = <<>>
               /\ outcome # "failed"
        /\ NumPoints(StrictlyAbove) >= 100 =>
               /\ result # "NO_ABOVE_GROUND_POINTS"
               /\ (pc = "stripping" /\ passes = 0) =>
                      remaining_pcd = StrictlyAbove

\* 100 or more points were kept and a run lying exactly 2.5 m above the
\* ground was left out
C14_Witness ==
    /\ script = "veg2" /\ pc = "stripping" /\ passes = 0
    /\ NumPoints(remaining_pcd) >= 100
    /\ \E k \in 1 .. Len(cloud) :
          /\ cloud[k].p[3] = ground_z_local + 5
          /\ \A j \in 1 .. Len(remaining_pcd) : remaining_pcd[j].p # cloud[k].p

\* exactly 99 points were kept and the function returned the named outcome
C14_WitnessBelowMinimum ==
    /\ script = "veg2" /\ pc = "returned"
    /\ NumPoints(StrictlyAbove) = 99
    /\ result = "NO_ABOVE_GROUND_POINTS"


\* main() has left the entity loop after entering it
LoopLeft == run \in {"complete", "aborted"} /\ attempts # <<>>

\* every entity of the list, once each, in the order of the list
AllEntitiesOnce == [k \in 1 .. matched |-> k]

\* C15: whatever happened to the entities (written, skipped, exception),
\* when a driver has left its entity loop the loop body has been entered
\* for every matched entity exactly once (thermal, reflectance, vegetation,
\* NDVI and solar drivers).
C15_EveryEntityAttemptedOnce ==
    LoopLeft => attempts = AllEntitiesOnce

\* the same for the drivers other than the solar one, where it holds
C15_EveryEntityAttemptedOnceButSolar ==
    (LoopLeft /\ script # "solar6") => attempts = AllEntitiesOnce


\* what the thermal driver writes to its log for a skipped entity
SkipReasons ==
    {"SKIPPED: Insufficient valid data or zero standard deviation.",
     "SKIPPED: Not enough anomalous points for clustering.",
     "SKIPPED: Invalid grid dimensions.",
     "SKIPPED: Not enough valid grid cells for clustering.",
     "SKIPPED: DBSCAN found no clusters."}

\* C16: in the thermal, reflectance and vegetation drivers an entity whose
\* iteration has ended is written, skipped or failed; a skipped entity has
\* a recorded reason, and a failed one a recorded error that is not one of
\* the skip reasons.
C16_EveryOutcomeRecorded ==
    (script \in {"thermal4b", "reflec5", "veg2"} /\ pc = "done") =>
        /\ outcome \in {"written", "skipped", "failed"}
        /\ outcome = "skipped" => log \in SkipReasons
        /\ outcome = "failed" => (log # "" /\ log \notin SkipReasons)

\* the same for the thermal driver alone, where it holds
C16_ThermalOutcomeRecorded ==
    (script = "thermal4b" /\ pc = "done") =>
        /\ outcome \in {"written", "skipped", "failed"}
        /\ outcome = "skipped" => log \in SkipReasons
        /\ outcome = "failed" => (log # "" /\ log \notin SkipReasons)


\* the scripts that project pixels through the beam intrinsics
Projecting == script \in {"ndvi3c", "reflec5", "thermal4b"}

\* C17: in the NDVI, thermal and reflectance pipelines, intrinsics that
\* lack an angle key or hold an empty angle list abort the run in its
\* start-up: the entity loop is never entered and no entity ends as a
\* per-entity failure.
C17_MalformedIntrinsicsAbortRun ==
    (Projecting /\ ~WellFormedIntrinsics /\ run # "starting") =>
        /\ run = "aborted"
        /\ attempts = <<>>
        /\ outcome = ""

\* the part that holds: the NDVI script aborts in its start-up when a key
\* is missing
C17_NdviMissingKeyAbortsRun ==
    (script = "ndvi3c" /\ run # "starting"
       /\ ~({"beam_altitude_angles", "beam_azimuth_angles"} \subseteq DOMAIN intrinsics)) =>
        /\ run = "aborted"
        /\ attempts = <<>>
        /\ outcome = ""


\* the table entries for row r and column c (0-based), the last entry
\* for every index past the end of the table
ClampedAlt(r) ==
    LET t == intrinsics.beam_altitude_angles
    IN  t[IF r >= Len(t) THEN Len(t) ELSE r + 1]
ClampedAzi(c) ==
    LET t == intrinsics.beam_azimuth_angles
    IN  t[IF c >= Len(t) THEN Len(t) ELSE c + 1]

\* where the pixel p lands when seen under altitude a and azimuth b
PointAt(p, a, b) ==
    << origin_coord[1] + (range_arr[p] * Cos5(a) * Cos5(b)) \div 25,
       origin_coord[2] + (range_arr[p] * Cos5(a) * Sin5(b)) \div 25,
       (range_arr[p] * Sin5(a)) \div 5 >>

\* the NDVI or the thermal driver holds the points of all valid pixels
AllValidProjected ==
    /\ WellFormedIntrinsics
    /\ \/ script = "ndvi3c" /\ pc \in {"projected", "done"}
       \/ ThermalPointsReturned

\* C18: with non-empty angle tables of lengths N and M, the point of the
\* pixel (row, col) lies where altitude alt[min(row, N-1)] and azimuth
\* azi[min(col, M-1)] put it: every index used is inside its table, rows
\* from N on use the last altitude and columns from M on the last azimuth.
C18_AnglesClamped ==
    AllValidProjected =>
        /\ Len(points) = Cardinality(ValidPixels)
        /\ \A p \in ValidPixels :
              LET pt == points[Cardinality(UpTo(p, ValidPixels))]
              IN  <<pt[1], pt[2], pt[3]>> =
                      PointAt(p, ClampedAlt(p[1]), ClampedAzi(p[2]))

\* an image with more rows than altitude angles, projected with valid
\* pixels both inside the table and in the rows past its end
C18_Witness ==
    /\ script = "ndvi3c" /\ pc = "projected"
    /\ shape[1] > Len(intrinsics.beam_altitude_angles)
    /\ \E p, q \in ValidPixels :
          /\ p[1] = 0
          /\ q[1] >= Len(intrinsics.beam_altitude_angles)
          /\ points[Cardinality(UpTo(q, ValidPixels))][3] > 0

\* an image with more columns than azimuth angles, projected with a valid
\* pixel in a column past the end of the table
C18_WitnessColumns ==
    /\ AllValidProjected
    /\ shape[2] > Len(intrinsics.beam_azimuth_angles)
    /\ \E q \in ValidPixels : q[2] >= Len(intrinsics.beam_azimuth_angles)


\* C19: in the NDVI script the point of a valid pixel with range r (mm),
\* altitude a and azimuth b is (ox + (r/1000) cos a cos b,
\* oy + (r/1000) cos a sin b, (r/1000) sin a), here in millimetres with
\* cos and sin in fifths; with alt = [0, 37], azi = [0, 90], range
\* [[1000, 2000], [0, 1500]] and origin (500000, 200000) m the points are
\* (500001, 200000, 0), (500000, 200002, 0) and (500000, 200001.2, 0.9) m.
C19_ProjectionFormula ==
    (script = "ndvi3c" /\ pc \in {"projected", "done"} /\ WellFormedIntrinsics) =>
        /\ \A p \in ValidPixels :
              LET pt == points[Cardinality(UpTo(p, ValidPixels))]
                  a  == AltOf(intrinsics, p[1])
                  b  == AziOf(intrinsics, p[2])
                  r  == range_arr[p]
              IN  /\ 25 * (pt[1] - origin_coord[1]) = r * Cos5(a) * Cos5(b)
                  /\ 25 * (pt[2] - origin_coord[2]) = r * Cos5(a) * Sin5(b)
                  /\ 5 * pt[3] = r * Sin5(a)
        /\ (range_arr = ExampleRange /\ intrinsics = BeamIntrinsics
               /\ origin_coord = <<500000000, 200000000>>) =>
              [k \in 1 .. Len(points) |-> <<points[k][1], points[k][2], points[k][3]>>]
                  = << <<500001000, 200000000, 0>>,
                       <<500000000, 200002000, 0>>,
                       <<500000000, 200001200, 900>> >>

\* the example image has been projected to its three points
C19_Witness ==
    /\ script = "ndvi3c" /\ pc = "projected"
    /\ range_arr = ExampleRange /\ intrinsics = BeamIntrinsics
    /\ Len(points) = 3 /\ points[3][3] = 900


\* other origins an entity could have had, as offsets in mm
OriginShifts ==
    {d \in {-1000, 0, 250} \X {-1000, 0, 250} : d # <<0, 0>>}

\* the reflectance driver holds the points its projection returned
ReflecPointsReturned == ReflecProjected /\ outcome # "failed"

\* the vegetation function has translated its residual points
VegTranslated ==
    script = "veg2" /\ pc \in {"binning", "returned", "done"}
      /\ veg_points_global # <<>>

\* C20: the points of the reflectance projection and the points the same
\* image gives at another origin are equally many, have the same z and the
\* same values, and differ in x and y by the difference of the origins;
\* the translated vegetation points are the residual points with the UPRN
\* coordinate added to x and y, the same z and counts, and the residual
\* points themselves are as they were.
C20_OriginShiftsXYOnly ==
    /\ ReflecPointsReturned =>
          \A d \in OriginShifts :
             LET other == GeorefReflec(shape, z_scores, range_arr, intrinsics,
                              <<origin_coord[1] + d[1], origin_coord[2] + d[2]>>,
                              anomalous_mask)
             IN  /\ Len(other) = Len(points)
                 /\ \A k \in 1 .. Len(points) :
                       /\ other[k][1] - points[k][1] = d[1]
                       /\ other[k][2] - points[k][2] = d[2]
                       /\ other[k][3] = points[k][3]
                       /\ other[k][4] = points[k][4]
    /\ VegTranslated =>
          /\ Len(veg_points_global) = Len(remaining_pcd)
          /\ \A k \in 1 .. Len(remaining_pcd) :
                /\ veg_points_global[k].p[1] = remaining_pcd[k].p[1] + origin_coord[1]
                /\ veg_points_global[k].p[2] = remaining_pcd[k].p[2] + origin_coord[2]
                /\ veg_points_global[k].p[3] = remaining_pcd[k].p[3]
                /\ veg_points_global[k].n = remaining_pcd[k].n
                /\ \E j \in 1 .. Len(cloud) : cloud[j].p = remaining_pcd[k].p

\* residual vegetation points of non-zero height have been translated by a
\* non-zero origin
C20_Witness ==
    /\ VegTranslated
    /\ origin_coord[1] # 0 /\ origin_coord[2] # 0
    /\ \E k \in 1 .. Len(veg_points_global) : veg_points_global[k].p[3] # 0

\* a reflectance image has given two or more points, one of them above the
\* sensor plane
C20_WitnessReflec ==
    /\ ReflecPointsReturned /\ Len(points) >= 2
    /\ \E k \in 1 .. Len(points) : points[k][3] > 0


\* georeference_pixels_to_points has been called for the entity, with
\* intrinsics that hold both keys, and no pixel passed its filter (range
\* strictly between 0 and 100000; in the reflectance script also the mask)
NoPixelPassed ==
    /\ HasRequiredKeys(intrinsics)
    /\ \/ script = "ndvi3c" /\ pc \in {"projected", "done"} /\ ValidPixels = {}
       \/ script = "thermal4b" /\ DOMAIN anomalous_mask # {} /\ ValidPixels = {}
       \/ ReflecProjected /\ MaskedValidPixels = {}

\* C21: when no pixel passes the validity filter the projection returns the
\* empty sequence without raising, and the NDVI, thermal and reflectance
\* drivers end the entity as skipped: no raster is written and no exception
\* is recorded.
C21_NoPointsIsSkipNotError ==
    NoPixelPassed =>
        /\ points = <<>>
        /\ outcome \notin {"written", "failed"}
        /\ log \notin {"PYTHON ERROR", "Python Error: KeyError",
                       "Python Error: IndexError"}
        /\ pc = "done" => outcome = "skipped"
        /\ script \in {"thermal4b", "reflec5"} => pc = "done"
        /\ grid = <<>> /\ output_raster_array = <<>>

\* a thermal image with enough temperatures and no pixel in range has ended
\* as skipped
C21_Witness ==
    /\ NoPixelPassed /\ script = "thermal4b"
    /\ pc = "done" /\ outcome = "skipped"

\* an NDVI image without a pixel in range, projected with an empty angle
\* list, has ended as skipped
C21_WitnessEmptyTable ==
    /\ NoPixelPassed /\ script = "ndvi3c" /\ ~WellFormedIntrinsics
    /\ pc = "done" /\ outcome = "skipped"


\* the values of the image other than NaN
PresentValues == {value_arr[p] : p \in Pixels(shape)} \ {NaN}

\* the loop body of the thermal or the reflectance driver has gone past its
\* first check on an image whose present values are all equal (deviation 0)
\* or that has no present value
NoVarianceChecked ==
    /\ script \in {"thermal4b", "reflec5"} /\ run # "starting"
    /\ pc # "loaded"
    /\ Cardinality(PresentValues) <= 1

\* C22: in the thermal and the reflectance driver an image whose standard
\* deviation over its present values is 0, or whose values are all missing,
\* ends the entity as skipped at the first check (in the thermal driver with
\* the insufficient-data-or-zero-deviation message): no z-scores, no mask,
\* no points, no grid and no raster exist for it.
C22_NoVarianceSkippedFirst ==
    NoVarianceChecked =>
        /\ pc = "done" /\ outcome = "skipped"
        /\ z_scores = <<>> /\ anomalous_mask = <<>> /\ points = <<>>
        /\ grid = <<>> /\ labels = <<>> /\ output_raster_array = <<>>
        /\ script = "thermal4b" =>
              log = "SKIPPED: Insufficient valid data or zero standard deviation."

\* a thermal image of 100 or more equal temperatures has been skipped
C22_Witness ==
    /\ NoVarianceChecked /\ script = "thermal4b"
    /\ Cardinality({p \in Pixels(shape) : value_arr[p] # NaN}) >= 100
    /\ Cardinality(PresentValues) = 1
    /\ outcome = "skipped"

\* a thermal image without a single temperature has been skipped
C22_WitnessAllMissing ==
    NoVarianceChecked /\ script = "thermal4b" /\ PresentValues = {}
      /\ outcome = "skipped"

\* a reflectance image of equal values has been skipped
C22_WitnessReflec ==
    NoVarianceChecked /\ script = "reflec5" /\ outcome = "skipped"


\* the thermal or the reflectance driver has computed its anomaly mask
MaskComputed ==
    script \in {"thermal4b", "reflec5"} /\ DOMAIN anomalous_mask # {}

\* the z-score num / sqrt(den2) is finite and its magnitude is above 3/2
Above1p5(z) == z # <<0, 0>> /\ 4 * z[1] * z[1] > 9 * z[2]

\* C23: mask[r, c] is true exactly when the score of the pixel is finite and
\* |score| > 1.5; a non-finite score counts as 0 (and is stored as 0 by the
\* reflectance script), so a pixel with a missing value is never anomalous,
\* and a pixel whose |score| equals 1.5 is not anomalous.
C23_MaskIsStrictThreshold ==
    MaskComputed =>
        LET score == ZScore(shape, value_arr)
        IN  \A p \in Pixels(shape) :
               /\ anomalous_mask[p] <=> Above1p5(score[p])
               /\ value_arr[p] = NaN => ~anomalous_mask[p]
               /\ script = "reflec5" =>
                     z_scores[p] = IF score[p] = <<0, 0>> THEN <<0, 1>>
                                   ELSE score[p]

\* a mask over a column that holds a score of exactly 1.5, not marked, and
\* a score below it
C23_Witness ==
    /\ MaskComputed /\ script = "reflec5"
    /\ \E p \in Pixels(shape) :
          /\ z_scores[p][1] > 0
          /\ 4 * z_scores[p][1] * z_scores[p][1] = 9 * z_scores[p][2]
          /\ ~anomalous_mask[p]

\* a thermal mask with a marked pixel and with a pixel of missing value
C23_WitnessMissing ==
    /\ MaskComputed /\ script = "thermal4b"
    /\ \E p, q \in Pixels(shape) :
          anomalous_mask[p] /\ value_arr[q] = NaN /\ ~anomalous_mask[q]


\* the residuals one pass of segment_plane and select_by_index can leave
PassResults ==
    {SelectByIndexInvert(remaining_pcd, inliers) :
        inliers \in SegmentPlaneInliers(remaining_pcd)}

\* C24: plane stripping is reproducible: on the same points a pass selects
\* the same plane and leaves the same residual, so before every pass there
\* is exactly one residual the pass can leave.
C24_PassHasOneResult ==
    (script = "veg2" /\ pc = "stripping" /\ passes < 5
       /\ NumPoints(remaining_pcd) >= 3) =>
        Cardinality(PassResults) = 1


\* process_veg_structural has left its stripping loop, by its end or by an
\* exception, for a cloud that passed the above-ground check
StrippingLeft ==
    /\ script = "veg2" /\ NumPoints(cloud) > 0
    /\ NumPoints(StrictlyAbove) >= 100
    /\ pc \in {"binning", "returned", "done"}

\* C25: for every input that passes the above-ground check exactly 5
\* fit-and-remove passes are executed, without early exit; no pass adds
\* points and the residual is always part of the above-ground set.
C25_ExactlyFivePasses ==
    /\ StrippingLeft => passes = 5
    /\ script = "veg2" =>
          /\ passes <= 5
          /\ \A k \in 1 .. Len(remaining_pcd) :
                \E j \in 1 .. Len(StrictlyAbove) :
                    remaining_pcd[k] = StrictlyAbove[j]

\* the part that holds: never more than 5 passes, and the residual is
\* always part of the above-ground set
C25_AtMostFivePassesOnSubsets ==
    script = "veg2" =>
        /\ passes <= 5
        /\ \A k \in 1 .. Len(remaining_pcd) :
              \E j \in 1 .. Len(StrictlyAbove) :
                  remaining_pcd[k] = StrictlyAbove[j]


\* the points of after are points of before
PartOf(after, before) ==
    \A k \in 1 .. Len(after) : \E j \in 1 .. Len(before) : after[k] = before[j]

\* a step of the stripping loop that completes a pass
PassStep == script = "veg2" /\ pc = "stripping" /\ passes' = passes + 1

\* C26: a pass fits the plane through one 3-point sample of its input and
\* leaves exactly the points of the input that are not within 0.2 m of it
\* (all of them when the sample spans no plane), so no point left is an
\* inlier of that plane; the passes that follow only remove points, so this
\* stays true of the final residual.
C26_NoInlierLeft ==
    [][PassStep =>
          /\ PartOf(remaining_pcd', remaining_pcd)
          /\ \E s \in Samples(remaining_pcd) :
                LET a == remaining_pcd[s[1]].p
                    n == PlaneNormal(a, remaining_pcd[s[2]].p,
                                     remaining_pcd[s[3]].p)
                IN  IF n = <<0, 0, 0>>
                      THEN remaining_pcd' = remaining_pcd
                      ELSE /\ \A k \in 1 .. Len(remaining_pcd') :
                                 ~IsInlier(remaining_pcd'[k].p, a, n)
                           /\ \A j \in 1 .. Len(remaining_pcd) :
                                 \/ IsInlier(remaining_pcd[j].p, a, n)
                                 \/ \E k \in 1 .. Len(remaining_pcd') :
                                       remaining_pcd'[k] = remaining_pcd[j]]_vars

\* a pass has removed some of the above-ground points and left others
C26_Witness ==
    /\ script = "veg2" /\ pc = "stripping" /\ passes >= 1
    /\ NumPoints(remaining_pcd) > 0
    /\ NumPoints(remaining_pcd) < NumPoints(StrictlyAbove)


\* the thermal grid stage has computed its extent and the grid has a size
GridSized ==
    /\ script = "thermal4b" /\ extent # <<>>
    /\ SpanCols > 0 /\ SpanRows > 0

\* the row and column index the binning computes for point k
RowIndex(k) == (points[k][2] - extent.min_y) \div 250
ColIndex(k) == (points[k][1] - extent.min_x) \div 250

\* C27: for every point set that passes the zero-dimension check, every
\* point's index satisfies 0 <= row < rows and 0 <= col < cols, so the
\* binning never indexes outside the grid.
C27_IndicesInsideGrid ==
    GridSized =>
        /\ \A k \in 1 .. Len(points) :
              /\ 0 <= RowIndex(k) /\ RowIndex(k) < SpanRows
              /\ 0 <= ColIndex(k) /\ ColIndex(k) < SpanCols
        /\ outcome # "failed"

\* what holds instead: an index is never negative and is at most the size,
\* and the entity fails exactly when some index equals the size
C27_IndicesAtMostSize ==
    GridSized =>
        /\ \A k \in 1 .. Len(points) :
              /\ 0 <= RowIndex(k) /\ RowIndex(k) <= SpanRows
              /\ 0 <= ColIndex(k) /\ ColIndex(k) <= SpanCols
        /\ log = "Python Error: IndexError" <=>
              \E k \in 1 .. Len(points) :
                  RowIndex(k) = SpanRows \/ ColIndex(k) = SpanCols


\* process_veg_structural has returned for the entity at hand
VegReturned == script = "veg2" /\ result # ""

\* C28: a raster is written only for an entity whose processing returned a
\* raster; EMPTY_PCD, NO_ABOVE_GROUND_POINTS, NO_COMPLEX_STRUCTURES and
\* NO_POINTS_IN_EXTENT are decided in this order, each one on the input the
\* earlier checks let through and before any later step has run, and none of
\* them is followed by a save.
C28_RasterOnlyAfterSuccess ==
    /\ script = "veg2" /\ outcome = "written" =>
          /\ result = "RASTER" /\ AnyNotNaN(height_raster)
    /\ VegReturned =>
          /\ pc \in {"returned", "done"}
          /\ pc = "done" =>
                outcome = (IF result = "RASTER" THEN "written" ELSE "skipped")
          /\ result = "EMPTY_PCD" <=> NumPoints(cloud) = 0
          /\ result = "EMPTY_PCD" =>
                /\ remaining_pcd = <<>> /\ passes = 0
                /\ veg_points_global = <<>> /\ height_raster = <<>>
          /\ result = "NO_ABOVE_GROUND_POINTS" <=>
                NumPoints(cloud) > 0 /\ NumPoints(StrictlyAbove) < 100
          /\ result = "NO_ABOVE_GROUND_POINTS" =>
                /\ remaining_pcd = <<>> /\ passes = 0
                /\ veg_points_global = <<>> /\ height_raster = <<>>
          /\ result = "NO_COMPLEX_STRUCTURES" =>
                /\ NumPoints(StrictlyAbove) >= 100
                /\ passes = 5 /\ NumPoints(remaining_pcd) = 0
                /\ veg_points_global = <<>> /\ height_raster = <<>>
          /\ result \in {"NO_POINTS_IN_EXTENT", "RASTER"} =>
                /\ NumPoints(StrictlyAbove) >= 100
                /\ passes = 5 /\ NumPoints(remaining_pcd) > 0
                /\ Len(veg_points_global) = Len(remaining_pcd)
                /\ height_raster # <<>>
                /\ result = "RASTER" <=> AnyNotNaN(height_raster)

\* the last of the four outcomes has ended an entity without a save
C28_Witness ==
    /\ script = "veg2" /\ pc = "done"
    /\ result = "NO_POINTS_IN_EXTENT" /\ outcome = "skipped"

\* each of the three earlier outcomes has ended an entity without a save
C28_WitnessEmpty ==
    script = "veg2" /\ pc = "done" /\ result = "EMPTY_PCD" /\ outcome = "skipped"

C28_WitnessNoAboveGround ==
    /\ script = "veg2" /\ pc = "done"
    /\ result = "NO_ABOVE_GROUND_POINTS" /\ outcome = "skipped"

C28_WitnessNoComplex ==
    /\ script = "veg2" /\ pc = "done"
    /\ result = "NO_COMPLEX_STRUCTURES" /\ outcome = "skipped"

\* a raster has been written
C28_WitnessWritten ==
    script = "veg2" /\ pc = "done" /\ result = "RASTER" /\ outcome = "written"


\* the cells into which the binning put at least one projected point
CellsBinned == {<<RowIndex(k), ColIndex(k)>> : k \in 1 .. Len(points)}

\* the cells handed to DBSCAN, as <<row, col>>
CellsOccupied == {<<grid_coords[k][2], grid_coords[k][1]>> : k \in 1 .. Len(grid_coords)}

\* the thermal pipeline has selected the occupied cells of an entity
CellsSelected ==
    /\ script = "thermal4b" /\ grid # <<>> /\ outcome # "failed"
    /\ pc \in {"clustered", "written", "done"}

\* C29: the cells handed to DBSCAN are exactly the cells into which at
\* least one projected point was binned, whatever the point's temperature.
C29_OccupiedIsBinned == CellsSelected => CellsOccupied = CellsBinned

\* what holds instead: a cell handed to DBSCAN received a point, and a cell
\* that received a point is handed to DBSCAN unless one of its points has a
\* missing temperature
C29_OccupiedIsBinnedWithValue ==
    CellsSelected =>
        /\ CellsOccupied \subseteq CellsBinned
        /\ \A c \in CellsBinned :
              c \in CellsOccupied <=>
                  \A k \in 1 .. Len(points) :
                      <<RowIndex(k), ColIndex(k)>> = c => points[k][4] # NaN


\* the vegetation raster exists: the binning loop is running or has ended
RasterStarted ==
    script = "veg2" /\ height_raster # <<>> /\ pc \in {"binning", "returned", "done"}

\* the cells of the vegetation raster that hold a height
Populated == {q \in DOMAIN height_raster.cells : height_raster.cells[q] # NaN}

\* the heights above the lowest input point of the binned points of cell q
HeightsIn(q) ==
    {veg_points_global[k].p[3] - LowestZ :
        k \in {j \in Binned : FloorCell(veg_points_global[j].p) = q}}

C30_WitnessJustAbove ==
    /\ RasterStarted /\ pc = "done"
    /\ \E q \in Populated : height_raster.cells[q] = ABOVE_GROUND_MARGIN + 1

=============================================================================
